---- MODULE Spec2Model ----
(***************************************************************************)
(* granola-obsidian-sync: the transcript processor (processTranscript,     *)
(* toProcessedSegment, deduplicateSegments, calculateSimilarity,           *)
(* formatTranscript), the panel processor (extractSectionsFromPanel,       *)
(* processPanels) and the main loop of sync.ts with its three handlers.    *)
(*                                                                         *)
(* A JavaScript string is a sequence of tokens.  A token is one character  *)
(* ("a", " ", ":") or, where only equality and concatenation are applied   *)
(* to it, one whitespace-free word ("microphone", "Me").  A JavaScript     *)
(* number that can be NaN is a record [nan, v].                            *)
(***************************************************************************)
EXTENDS Integers, Sequences, FiniteSets, TLC

VARIABLES
    transcriptData,  \* processTranscript's argument
    segments,        \* processTranscript: the extracted segments array
    processed,       \* the list handed to deduplicateSegments
    toRemove,        \* deduplicateSegments: Set<number> (indices from 1)
    i, j,            \* deduplicateSegments: the two loop counters (from 1)
    removedBy,       \* history: <<index removed, index it was compared with>>
    deduplicated,    \* deduplicateSegments' return value
    lines,           \* formatTranscript: the lines array
    result,          \* processTranscript's return value
    pc,              \* position in the running function
    pass,            \* which application of deduplicateSegments is running
    firstPass,       \* the first application's argument and return value
    panels,          \* processPanels' argument
    p,               \* processPanels: index of the next panel of the flatMap
    allSections,     \* processPanels: sections collected so far
    origins,         \* history: <<panel, h3>> each collected section came from
    panelResult,     \* processPanels' return value
    vault,           \* the meeting files of the vault, by path
    daily,           \* the daily notes of the vault, by date
    trashed,         \* calendar_event_id of the granola notes under .trash
    forceDocumentId, \* sync.ts: the id given with --force, or Undefined
    existingMeetings,\* main: the result of indexVaultMeetings
    meetings,        \* main: the meetings the loop walks
    meetingIndex,    \* main: index of the loop's meeting (from 1)
    fetched,         \* main: the panels of the loop's meeting
    meetingData,     \* main: the MeetingData and category of the loop's meeting
    handlerResult,   \* main: the result of the last handler called
    processedCount,  \* main
    skippedCount,    \* main
    run,             \* number of runs of main started so far
    forced,          \* history: some run so far was in force mode
    simText1,        \* calculateSimilarity's first argument
    simText2,        \* calculateSimilarity's second argument
    similarity,      \* calculateSimilarity's return value
    failureCountFile,\* the content of .granola-sync-failures, or Absent
    failureRuns,     \* number of processes started so far
    streak,          \* history: failed runs since the last run that did not fail
    crashSent        \* history: the last process sent 'Granola Sync CRASHED'

tvars == <<transcriptData, segments, processed, toRemove, i, j, removedBy,
           deduplicated, lines, result, pass, firstPass>>
pvars == <<panels, p, allSections, origins, panelResult>>
svars == <<vault, daily, trashed, forceDocumentId, existingMeetings, meetings,
           meetingIndex,
           fetched, meetingData, handlerResult, processedCount, skippedCount,
           run, forced>>
cvars == <<simText1, simText2, similarity>>
fvars == <<failureCountFile, failureRuns, streak, crashSent>>
vars == <<transcriptData, segments, processed, toRemove, i, j, removedBy,
          deduplicated, lines, result, pc, pass, firstPass,
          panels, p, allSections, origins, panelResult,
          vault, daily, trashed, forceDocumentId, existingMeetings, meetings,
           meetingIndex,
          fetched, meetingData, handlerResult, processedCount, skippedCount,
          run, forced, simText1, simText2, similarity,
          failureCountFile, failureRuns, streak, crashSent>>

----------------------------------------------------------------------------
(* Bounds *)

MaxDedupSegs == 3
MaxSegs == 3
MaxPanels == 2
MaxMeetings == 2
MaxRuns == 2
MaxTextLen == 4
MaxRunLen == 6
MaxFailureRuns == 4

----------------------------------------------------------------------------
(* JavaScript strings and numbers *)

Min(a, b) == IF a <= b THEN a ELSE b
Max(a, b) == IF a >= b THEN a ELSE b

IsWhitespace(c) == c \in {" ", "\n", "\t"}

\* String.prototype.trim
Trim(s) ==
    LET keep == {k \in 1..Len(s) : ~IsWhitespace(s[k])}
    IN  IF keep = {} THEN <<>>
        ELSE SubSeq(s, CHOOSE k \in keep : \A m \in keep : k <= m,
                       CHOOSE k \in keep : \A m \in keep : k >= m)

LowerChar(c) ==
    CASE c = "A" -> "a"
      [] c = "B" -> "b"
      [] c = "C" -> "c"
      [] c = "Ann" -> "ann"
      [] c = "Standup" -> "standup"
      [] c = "Chat" -> "chat"
      [] c = "Plain" -> "plain"
      [] OTHER -> c

\* String.prototype.toLowerCase
ToLowerCase(s) == [k \in 1..Len(s) |-> LowerChar(s[k])]

\* String.prototype.includes
Includes(s, t) ==
    \E k \in 0..(Len(s) - Len(t)) : SubSeq(s, k + 1, k + Len(t)) = t

\* Array.prototype.join
RECURSIVE Join(_, _)
Join(strs, sep) ==
    IF Len(strs) = 0 THEN <<>>
    ELSE IF Len(strs) = 1 THEN strs[1]
    ELSE strs[1] \o sep \o Join(Tail(strs), sep)

\* JavaScript values: [t |-> type, s |-> the string's tokens]
Undefined == [t |-> "undefined", s |-> <<>>]
JsNull == [t |-> "null", s |-> <<>>]
JsString(s) == [t |-> "string", s |-> s]
\* a number other than 0 and NaN
JsNumber == [t |-> "number", s |-> <<"5">>]
JsArray(a) == [t |-> "array", a |-> a]

\* ToBoolean
Truthy(v) ==
    CASE v.t \in {"undefined", "null"} -> FALSE
      [] v.t = "string" -> v.s # <<>>
      [] OTHER -> TRUE

Num(n) == [nan |-> FALSE, v |-> n]
NaN == [nan |-> TRUE, v |-> 0]

\* a > b on numbers: false when either is NaN
NumGt(a, b) == ~a.nan /\ ~b.nan /\ a.v > b.v
\* a + n
NumAdd(a, n) == IF a.nan THEN NaN ELSE Num(a.v + n)

----------------------------------------------------------------------------
(* calculateSimilarity.  The quotient is kept exact as num/den; within the *)
(* text lengths of this model no quotient is within rounding distance of   *)
(* the threshold, so the comparison agrees with the double arithmetic.     *)

timeWindowMs == 4500
similarityThresholdNum == 68
similarityThresholdDen == 100

\* the failure tracking of sync.ts is not part of the run
FailuresIdle ==
    /\ failureCountFile = [exists |-> FALSE]
    /\ failureRuns = 0
    /\ streak = 0
    /\ crashSent = FALSE

\* calculateSimilarity is not running
SimilarityIdle ==
    /\ simText1 = <<>>
    /\ simText2 = <<>>
    /\ similarity = [num |-> 0, den |-> 1]

\* longestCommonSubsequence with the table's dp[i][j - 1] left out of the maximum
longestCommonSubsequenceOneSided(s1, s2) ==
    LET m == Len(s1)
        n == Len(s2)
        dp[a \in 0..m, b \in 0..n] ==
            IF a = 0 \/ b = 0 THEN 0
            ELSE IF s1[a] = s2[b] THEN dp[a - 1, b - 1] + 1
            ELSE dp[a - 1, b]
    IN  dp[m, n]

longestCommonSubsequence(s1, s2) ==
    LET m == Len(s1)
        n == Len(s2)
        dp[a \in 0..m, b \in 0..n] ==
            IF a = 0 \/ b = 0 THEN 0
            ELSE IF s1[a] = s2[b] THEN dp[a - 1, b - 1] + 1
            ELSE Max(dp[a - 1, b], dp[a, b - 1])
    IN  dp[m, n]

calculateSimilarity(text1, text2) ==
    LET s1 == ToLowerCase(text1)
        s2 == ToLowerCase(text2)
        minLen == Min(Len(s1), Len(s2))
        maxLen == Max(Len(s1), Len(s2))
    IN  IF s1 = s2 THEN [num |-> 1, den |-> 1]
        ELSE IF s1 = <<>> \/ s2 = <<>> THEN [num |-> 0, den |-> 1]
        ELSE IF Includes(s1, s2) \/ Includes(s2, s1)
             THEN [num |-> 5 * minLen + maxLen, den |-> 5 * maxLen]
        ELSE [num |-> longestCommonSubsequence(s1, s2), den |-> maxLen]

\* similarity >= similarityThreshold
AtLeastThreshold(sim) ==
    sim.num * similarityThresholdDen >= similarityThresholdNum * sim.den

----------------------------------------------------------------------------
(* deduplicateSegments, one action per loop iteration *)

MICROPHONE == <<"microphone">>
SYSTEM == <<"system">>

\* DedupOuter without `if (toRemove.has(i)) continue;`
DedupOuterNoSkip ==
    /\ pc = "dedupOuter"
    /\ i <= Len(processed)
    /\ j' = i + 1
    /\ pc' = "dedupInner"
    /\ UNCHANGED i
    /\ UNCHANGED <<transcriptData, segments, processed, toRemove, removedBy,
                   deduplicated, lines, result, pass, firstPass>>
    /\ UNCHANGED <<pvars, svars, cvars, fvars>>

\* for (let i = 0; ...) { if (toRemove.has(i)) continue; ... for (let j = i + 1; ...)
DedupOuter ==
    /\ pc = "dedupOuter"
    /\ i <= Len(processed)
    /\ IF i \in toRemove
       THEN /\ i' = i + 1
            /\ UNCHANGED <<j, pc>>
       ELSE /\ j' = i + 1
            /\ pc' = "dedupInner"
            /\ UNCHANGED i
    /\ UNCHANGED <<transcriptData, segments, processed, toRemove, removedBy,
                   deduplicated, lines, result, pass, firstPass>>
    /\ UNCHANGED <<pvars, svars, cvars, fvars>>

\* the inner loop ran off the end of the array
DedupInnerEnd ==
    /\ pc = "dedupInner"
    /\ j > Len(processed)
    /\ i' = i + 1
    /\ pc' = "dedupOuter"
    /\ UNCHANGED <<transcriptData, segments, processed, toRemove, j, removedBy,
                   deduplicated, lines, result, pass, firstPass>>
    /\ UNCHANGED <<pvars, svars, cvars, fvars>>

\* if (toRemove.has(j)) continue;
DedupSkip ==
    /\ pc = "dedupInner"
    /\ j <= Len(processed)
    /\ j \in toRemove
    /\ j' = j + 1
    /\ UNCHANGED <<transcriptData, segments, processed, toRemove, i, removedBy,
                   deduplicated, lines, result, pc, pass, firstPass>>
    /\ UNCHANGED <<pvars, svars, cvars, fvars>>

windowEnd == NumAdd(processed[i].startTime, timeWindowMs)

\* OutsideWindow with the window's upper bound excluded
OutsideWindowAtBound ==
    /\ ~processed[j].startTime.nan
    /\ ~windowEnd.nan
    /\ processed[j].startTime.v >= windowEnd.v

\* if (other.startTime > windowEnd) break;
OutsideWindow == NumGt(processed[j].startTime, windowEnd)

DedupBreak ==
    /\ pc = "dedupInner"
    /\ j <= Len(processed)
    /\ j \notin toRemove
    /\ OutsideWindow
    /\ i' = i + 1
    /\ pc' = "dedupOuter"
    /\ UNCHANGED <<transcriptData, segments, processed, toRemove, j, removedBy,
                   deduplicated, lines, result, pass, firstPass>>
    /\ UNCHANGED <<pvars, svars, cvars, fvars>>

\* Resolve with the source rule left out: the longer text always wins
ResolveByLengthOnly(segment, other) ==
    IF ~AtLeastThreshold(calculateSimilarity(segment.text, other.text))
    THEN "none"
    ELSE IF Len(segment.text) >= Len(other.text) THEN "j"
    ELSE "i"

\* Resolve with equal lengths decided for the later segment
ResolveTiesToLater(segment, other) ==
    IF ~AtLeastThreshold(calculateSimilarity(segment.text, other.text))
    THEN "none"
    ELSE IF segment.source = MICROPHONE /\ other.source = SYSTEM THEN "j"
    ELSE IF segment.source = SYSTEM /\ other.source = MICROPHONE THEN "i"
    ELSE IF Len(segment.text) > Len(other.text) THEN "j"
    ELSE "i"

\* Resolve leaving both segments when their texts have the same length
ResolveUnequalOnly(segment, other) ==
    IF ~AtLeastThreshold(calculateSimilarity(segment.text, other.text))
    THEN "none"
    ELSE IF segment.source = MICROPHONE /\ other.source = SYSTEM THEN "j"
    ELSE IF segment.source = SYSTEM /\ other.source = MICROPHONE THEN "i"
    ELSE IF Len(segment.text) > Len(other.text) THEN "j"
    ELSE IF Len(segment.text) < Len(other.text) THEN "i"
    ELSE "none"

\* which of the pair goes: "j" (toRemove.add(j)), "i" (toRemove.add(i); break)
\* or "none" (similarity below the threshold)
Resolve(segment, other) ==
    IF ~AtLeastThreshold(calculateSimilarity(segment.text, other.text))
    THEN "none"
    ELSE IF segment.source = MICROPHONE /\ other.source = SYSTEM THEN "j"
    ELSE IF segment.source = SYSTEM /\ other.source = MICROPHONE THEN "i"
    ELSE IF Len(segment.text) >= Len(other.text) THEN "j"
    ELSE "i"

\* DedupCompare leaving the inner loop at the first dissimilar segment
DedupCompareBreakOnMiss ==
    /\ pc = "dedupInner"
    /\ j <= Len(processed)
    /\ j \notin toRemove
    /\ ~OutsideWindow
    /\ LET r == Resolve(processed[i], processed[j])
       IN  CASE r = "none" ->
                  /\ i' = i + 1
                  /\ pc' = "dedupOuter"
                  /\ UNCHANGED <<toRemove, removedBy, j>>
             [] r = "j" ->
                  /\ toRemove' = toRemove \cup {j}
                  /\ removedBy' = removedBy \cup {<<j, i>>}
                  /\ j' = j + 1
                  /\ UNCHANGED <<i, pc>>
             [] r = "i" ->
                  /\ toRemove' = toRemove \cup {i}
                  /\ removedBy' = removedBy \cup {<<i, j>>}
                  /\ i' = i + 1
                  /\ pc' = "dedupOuter"
                  /\ UNCHANGED j
    /\ UNCHANGED <<transcriptData, segments, processed, deduplicated, lines,
                   result, pass, firstPass>>
    /\ UNCHANGED <<pvars, svars, cvars, fvars>>

DedupCompare ==
    /\ pc = "dedupInner"
    /\ j <= Len(processed)
    /\ j \notin toRemove
    /\ ~OutsideWindow
    /\ LET r == Resolve(processed[i], processed[j])
       IN  CASE r = "none" ->
                  /\ j' = j + 1
                  /\ UNCHANGED <<toRemove, removedBy, i, pc>>
             [] r = "j" ->
                  /\ toRemove' = toRemove \cup {j}
                  /\ removedBy' = removedBy \cup {<<j, i>>}
                  /\ j' = j + 1
                  /\ UNCHANGED <<i, pc>>
             [] r = "i" ->
                  /\ toRemove' = toRemove \cup {i}
                  /\ removedBy' = removedBy \cup {<<i, j>>}
                  /\ i' = i + 1
                  /\ pc' = "dedupOuter"
                  /\ UNCHANGED j
    /\ UNCHANGED <<transcriptData, segments, processed, deduplicated, lines,
                   result, pass, firstPass>>
    /\ UNCHANGED <<pvars, svars, cvars, fvars>>

\* segments.filter((_, i) => !toRemove.has(i))
RECURSIVE FilterKept(_, _, _)
FilterKept(segs, removed, k) ==
    IF k > Len(segs) THEN <<>>
    ELSE IF k \in removed THEN FilterKept(segs, removed, k + 1)
    ELSE <<segs[k]>> \o FilterKept(segs, removed, k + 1)

DedupReturn ==
    /\ pc = "dedupOuter"
    /\ i > Len(processed)
    /\ deduplicated' = FilterKept(processed, toRemove, 1)
    /\ pc' = "format"
    /\ UNCHANGED <<transcriptData, segments, processed, toRemove, i, j,
                   removedBy, lines, result, pass, firstPass>>
    /\ UNCHANGED <<pvars, svars, cvars, fvars>>

----------------------------------------------------------------------------
(* formatTranscript *)

\* FormatLoop flushing before every segment, whoever speaks
RECURSIVE FormatLoopFlushAlways(_, _, _, _, _)
FormatLoopFlushAlways(segs, k, out, currentSpeaker, speakerText) ==
    IF k > Len(segs)
    THEN IF currentSpeaker # <<>> /\ Len(speakerText) > 0
         THEN out \o <<currentSpeaker \o <<":">>,
                       Trim(Join(speakerText, <<" ">>)),
                       <<>> >>
         ELSE out
    ELSE LET segment == segs[k]
             flush == currentSpeaker # <<>>
         IN  FormatLoopFlushAlways(segs, k + 1,
                 IF flush
                 THEN out \o <<currentSpeaker \o <<":">>,
                               Trim(Join(speakerText, <<" ">>)),
                               <<>> >>
                 ELSE out,
                 segment.speaker,
                 (IF flush THEN <<>> ELSE speakerText) \o <<segment.text>>)

\* FormatLoop never flushing inside the loop: one block, the last speaker's
RECURSIVE FormatLoopFlushNever(_, _, _, _, _)
FormatLoopFlushNever(segs, k, out, currentSpeaker, speakerText) ==
    IF k > Len(segs)
    THEN IF currentSpeaker # <<>> /\ Len(speakerText) > 0
         THEN out \o <<currentSpeaker \o <<":">>,
                       Trim(Join(speakerText, <<" ">>)),
                       <<>> >>
         ELSE out
    ELSE FormatLoopFlushNever(segs, k + 1, out, segs[k].speaker,
                              speakerText \o <<segs[k].text>>)

\* the for-of loop followed by the final flush; currentSpeaker = <<>> is null
RECURSIVE FormatLoop(_, _, _, _, _)
FormatLoop(segs, k, out, currentSpeaker, speakerText) ==
    IF k > Len(segs)
    THEN IF currentSpeaker # <<>> /\ Len(speakerText) > 0
         THEN out \o <<currentSpeaker \o <<":">>,
                       Trim(Join(speakerText, <<" ">>)),
                       <<>> >>
         ELSE out
    ELSE LET segment == segs[k]
             flush == currentSpeaker # <<>> /\ currentSpeaker # segment.speaker
         IN  FormatLoop(segs, k + 1,
                 IF flush
                 THEN out \o <<currentSpeaker \o <<":">>,
                               Trim(Join(speakerText, <<" ">>)),
                               <<>> >>
                 ELSE out,
                 segment.speaker,
                 (IF flush THEN <<>> ELSE speakerText) \o <<segment.text>>)

formatLines(segs) ==
    IF Len(segs) = 0 THEN <<>> ELSE FormatLoop(segs, 1, <<>>, <<>>, <<>>)

Format ==
    /\ pc = "format"
    /\ lines' = formatLines(deduplicated)
    /\ result' = JsString(Join(formatLines(deduplicated), <<"\n">>))
    /\ pc' = "returned"
    /\ UNCHANGED <<transcriptData, segments, processed, toRemove, i, j,
                   removedBy, deduplicated, pass, firstPass>>
    /\ UNCHANGED <<pvars, svars, cvars, fvars>>

----------------------------------------------------------------------------
(* toProcessedSegment *)

ME == <<"Me">>
THEM == <<"Them">>
UNKNOWN == <<"Unknown">>

\* new Date(s).getTime() of a string
DateGetTime(s) ==
    CASE s = <<"1970-01-01T00:00:00.000Z">> -> Num(0)
      [] s = <<"1970-01-01T00:00:01.000Z">> -> Num(1000)
      [] s = <<"1970-01-01T00:00:02.000Z">> -> Num(2000)
      [] s = <<"1970-01-01T00:00:05.501Z">> -> Num(5501)
      [] OTHER -> NaN

\* SpeakerOf with the two labels exchanged
SpeakerOfExchanged(source) ==
    IF source = MICROPHONE THEN THEM
    ELSE IF source = SYSTEM THEN ME
    ELSE UNKNOWN

\* let speaker = 'Unknown'; if (source === 'microphone') ... else if ...
SpeakerOf(source) ==
    IF source = MICROPHONE THEN ME
    ELSE IF source = SYSTEM THEN THEM
    ELSE UNKNOWN

toProcessedSegment(segment) ==
    LET startTime == IF Truthy(segment.start_timestamp)
                     THEN DateGetTime(segment.start_timestamp.s)
                     ELSE Num(0)
        endTime == IF Truthy(segment.end_timestamp)
                   THEN DateGetTime(segment.end_timestamp.s)
                   ELSE startTime
    IN  [text |-> Trim(segment.text.s),
         speaker |-> IF segment.source.t = "string"
                     THEN SpeakerOf(segment.source.s) ELSE UNKNOWN,
         startTime |-> startTime,
         endTime |-> endTime,
         source |-> IF Truthy(segment.source) THEN segment.source.s ELSE <<>>]

----------------------------------------------------------------------------
(* deduplicateSegments and formatTranscript applied to start-time-sorted   *)
(* lists of processed segments                                             *)

\* "aBc" is contained in "abca" once lowered (similarity 0.95), "abca" and
\* "abba" share a subsequence of 3 of 4 characters (0.75), "aBc" and "abba"
\* one of 2 of 4 (0.5)
DedupTexts ==
    { <<"a", "B", "c">>, <<"a", "b", "c", "a">>, <<"a", "b", "b", "a">> }
DedupSources == {MICROPHONE, SYSTEM, <<>>}
\* distance of a segment's start from the start of the segment before it
DedupGaps == {0, timeWindowMs, timeWindowMs + 1}

\* the first segment starts at 0
RECURSIVE StartOf(_, _)
StartOf(gaps, k) == IF k <= 1 THEN 0 ELSE gaps[k] + StartOf(gaps, k - 1)

\* the list of length n with these texts, sources and gaps
SortedList(n, texts, sources, gaps) ==
    [k \in 1..n |->
        [text |-> texts[k],
         speaker |-> SpeakerOf(sources[k]),
         startTime |-> Num(StartOf(gaps, k)),
         endTime |-> Num(StartOf(gaps, k)),
         source |-> sources[k]]]

PanelsIdle ==
    /\ panels = <<>>
    /\ p = 0
    /\ allSections = <<>>
    /\ origins = <<>>
    /\ panelResult = Undefined

\* sync.ts is not running
SyncIdle ==
    /\ vault = <<>>
    /\ daily = <<>>
    /\ trashed = {}
    /\ forceDocumentId = Undefined
    /\ existingMeetings = {}
    /\ meetings = <<>>
    /\ meetingIndex = 1
    /\ fetched = Undefined
    /\ meetingData = Undefined
    /\ handlerResult = Undefined
    /\ processedCount = 0
    /\ skippedCount = 0
    /\ run = 0
    /\ forced = FALSE

\* deduplicateSegments(segs): if (segments.length === 0) return [];
StartDedup(segs) ==
    /\ processed' = segs
    /\ toRemove' = {}
    /\ removedBy' = {}
    /\ i' = 1
    /\ j' = 1
    /\ IF Len(segs) = 0
       THEN deduplicated' = <<>> /\ pc' = "format"
       ELSE deduplicated' = <<>> /\ pc' = "dedupOuter"

InitDedup ==
    /\ SimilarityIdle
    /\ FailuresIdle
    /\ transcriptData = Undefined
    /\ segments = <<>>
    /\ \E n \in 0..MaxDedupSegs :
         \E texts \in [1..n -> DedupTexts], sources \in [1..n -> DedupSources],
            gaps \in [2..n -> DedupGaps] :
            processed = SortedList(n, texts, sources, gaps)
    /\ toRemove = {}
    /\ removedBy = {}
    /\ i = 1
    /\ j = 1
    /\ deduplicated = <<>>
    /\ lines = <<>>
    /\ result = Undefined
    /\ pc = IF Len(processed) = 0 THEN "format" ELSE "dedupOuter"
    /\ pass = 1
    /\ firstPass = [in |-> <<>>, out |-> <<>>]
    /\ PanelsIdle
    /\ SyncIdle

\* deduplicateSegments applied to its own return value
Rerun ==
    /\ pc = "format"
    /\ pass = 1
    /\ pass' = 2
    /\ firstPass' = [in |-> processed, out |-> deduplicated]
    /\ StartDedup(deduplicated)
    /\ UNCHANGED <<transcriptData, segments, lines, result>>
    /\ UNCHANGED <<pvars, svars, cvars, fvars>>

NextDedup ==
    \/ DedupOuter
    \/ DedupInnerEnd
    \/ DedupSkip
    \/ DedupBreak
    \/ DedupCompare
    \/ DedupReturn
    \/ Format
    \/ Rerun

SpecDedup == InitDedup /\ [][NextDedup]_vars

----------------------------------------------------------------------------
(* processTranscript *)

\* Array.prototype.sort((a, b) => a.startTime - b.startTime): a stable sort.
\* A comparator result of NaN counts as 0.
RECURSIVE InsertByStart(_, _)
InsertByStart(sorted, x) ==
    IF Len(sorted) = 0 THEN <<x>>
    ELSE IF NumGt(sorted[Len(sorted)].startTime, x.startTime)
         THEN InsertByStart(SubSeq(sorted, 1, Len(sorted) - 1), x)
                  \o <<sorted[Len(sorted)]>>
         ELSE sorted \o <<x>>

RECURSIVE StableSort(_)
StableSort(list) ==
    IF Len(list) = 0 THEN <<>>
    ELSE InsertByStart(StableSort(SubSeq(list, 1, Len(list) - 1)),
                       list[Len(list)])

\* The comparator is consistent when no start time is NaN or when it answers
\* 0 for every pair; otherwise the order of the result is implementation-defined.
ConsistentComparator(list) ==
    \/ \A k \in 1..Len(list) : ~list[k].startTime.nan
    \/ \A k, m \in 1..Len(list) :
          \/ list[k].startTime.nan
          \/ list[m].startTime.nan
          \/ list[k].startTime.v = list[m].startTime.v

SortOutcomes(list) ==
    IF ConsistentComparator(list) THEN {StableSort(list)}
    ELSE { [k \in 1..Len(list) |-> list[q[k]]] :
             q \in Permutations(1..Len(list)) }

RawSegment(text, source, start, end) ==
    [t |-> "object", text |-> text, source |-> source,
     start_timestamp |-> start, end_timestamp |-> end]

T0 == JsString(<<"1970-01-01T00:00:00.000Z">>)
T1000 == JsString(<<"1970-01-01T00:00:01.000Z">>)
T2000 == JsString(<<"1970-01-01T00:00:02.000Z">>)
T5501 == JsString(<<"1970-01-01T00:00:05.501Z">>)
BadDate == JsString(<<"yesterday">>)

\* the elements the segment arrays are built from
RawSegments ==
    { [t |-> "null", text |-> Undefined, source |-> Undefined,
       start_timestamp |-> Undefined, end_timestamp |-> Undefined],
      RawSegment(JsNumber, JsString(MICROPHONE), T0, T1000),
      RawSegment(JsString(<<>>), JsString(SYSTEM), T0, Undefined),
      RawSegment(JsString(<<" ", " ">>), JsString(MICROPHONE), Undefined, Undefined),
      RawSegment(JsString(<<" ", "a", "b", " ">>), JsString(MICROPHONE), T1000, T2000),
      RawSegment(JsString(<<"A", "b">>), JsString(SYSTEM), T2000, Undefined),
      RawSegment(JsString(<<"c", "d">>), JsString(SYSTEM), T0, BadDate),
      RawSegment(JsString(<<"d", "c">>), JsString(SYSTEM), T5501, Undefined),
      RawSegment(JsString(<<"c", " ", "c">>), Undefined, Undefined, Undefined),
      RawSegment(JsString(<<"a", "b">>), JsString(<<"speaker">>), BadDate, T1000),
      RawSegment(JsString(<<"a", "b">>), Undefined, T5501, Undefined),
      RawSegment(Undefined, JsString(MICROPHONE), JsString(<<>>), Undefined) }

SegmentArrays ==
    UNION { [1..n -> RawSegments] : n \in 0..MaxSegs }

\* v?.segments and v?.transcript
GetSegments(v) ==
    IF v.t = "object" /\ "segments" \in DOMAIN v THEN v.segments ELSE Undefined
GetTranscript(v) ==
    IF v.t = "object" /\ "transcript" \in DOMAIN v THEN v.transcript ELSE Undefined

\* Array.isArray(d) ? d : d?.segments || d?.transcript?.segments || []
ExtractSegments(d) ==
    IF d.t = "array" THEN d
    ELSE IF Truthy(GetSegments(d)) THEN GetSegments(d)
    ELSE IF Truthy(GetSegments(GetTranscript(d)))
         THEN GetSegments(GetTranscript(d))
    ELSE JsArray(<<>>)

TranscriptIdle ==
    /\ segments = <<>>
    /\ processed = <<>>
    /\ toRemove = {}
    /\ removedBy = {}
    /\ i = 1
    /\ j = 1
    /\ deduplicated = <<>>
    /\ lines = <<>>
    /\ result = Undefined
    /\ pass = 1
    /\ firstPass = [in |-> <<>>, out |-> <<>>]

Init ==
    /\ SimilarityIdle
    /\ FailuresIdle
    /\ \/ transcriptData \in {JsString(<<>>), JsString(<<"M", "e", ":">>),
                              JsNull, Undefined, JsNumber}
       \/ \E a \in SegmentArrays :
             \/ transcriptData = JsArray(a)
             \/ \E tr \in {Undefined, JsString(<<"r", "a", "w">>),
                           [t |-> "object", segments |-> Undefined],
                           [t |-> "object", segments |-> JsArray(<<>>)]} :
                   transcriptData =
                       [t |-> "object", segments |-> JsArray(a), transcript |-> tr]
             \/ \E sg \in {Undefined, JsArray(<<>>)} :
                   transcriptData =
                       [t |-> "object", segments |-> sg,
                        transcript |-> [t |-> "object", segments |-> JsArray(a)]]
    /\ pc = "processTranscript"
    /\ TranscriptIdle
    /\ PanelsIdle
    /\ SyncIdle

\* typeof transcriptData === 'string': passed through
ReturnString ==
    /\ pc = "processTranscript"
    /\ transcriptData.t = "string"
    /\ result' = transcriptData
    /\ pc' = "returned"
    /\ UNCHANGED <<transcriptData, segments, processed, toRemove, i, j,
                   removedBy, deduplicated, lines, pass, firstPass>>
    /\ UNCHANGED <<pvars, svars, cvars, fvars>>

\* if (!segments || segments.length === 0) return transcriptData?.transcript || '';
ReturnFallback ==
    /\ pc = "processTranscript"
    /\ transcriptData.t # "string"
    /\ Len(ExtractSegments(transcriptData).a) = 0
    /\ result' = IF Truthy(GetTranscript(transcriptData))
                 THEN GetTranscript(transcriptData)
                 ELSE JsString(<<>>)
    /\ pc' = "returned"
    /\ UNCHANGED <<transcriptData, segments, processed, toRemove, i, j,
                   removedBy, deduplicated, lines, pass, firstPass>>
    /\ UNCHANGED <<pvars, svars, cvars, fvars>>

Extract ==
    /\ pc = "processTranscript"
    /\ transcriptData.t # "string"
    /\ Len(ExtractSegments(transcriptData).a) > 0
    /\ segments' = ExtractSegments(transcriptData).a
    /\ pc' = "normalize"
    /\ UNCHANGED <<transcriptData, processed, toRemove, i, j, removedBy,
                   deduplicated, lines, result, pass, firstPass>>
    /\ UNCHANGED <<pvars, svars, cvars, fvars>>

\* s.text && s.text.trim() raises a TypeError: s is null, or s.text is truthy
\* and has no trim method
FilterThrows(s) ==
    \/ s.t = "null"
    \/ Truthy(s.text) /\ s.text.t # "string"

\* the filter callback's verdict without its trim call
KeepsSegmentUntrimmed(s) == Truthy(s.text)

\* .filter(s => s.text && s.text.trim())
KeepsSegment(s) == Truthy(s.text) /\ Trim(s.text.s) # <<>>

RECURSIVE FilterMap(_)
FilterMap(segs) ==
    IF Len(segs) = 0 THEN <<>>
    ELSE (IF KeepsSegment(segs[1]) THEN <<toProcessedSegment(segs[1])>> ELSE <<>>)
             \o FilterMap(Tail(segs))

NormalizeThrows ==
    /\ pc = "normalize"
    /\ \E k \in 1..Len(segments) : FilterThrows(segments[k])
    /\ result' = [t |-> "TypeError", s |-> <<>>]
    /\ pc' = "threw"
    /\ UNCHANGED <<transcriptData, segments, processed, toRemove, i, j,
                   removedBy, deduplicated, lines, pass, firstPass>>
    /\ UNCHANGED <<pvars, svars, cvars, fvars>>

\* .filter(...).map(...).sort(...) and the call of deduplicateSegments
Normalize ==
    /\ pc = "normalize"
    /\ \A k \in 1..Len(segments) : ~FilterThrows(segments[k])
    /\ \E sorted \in SortOutcomes(FilterMap(segments)) : StartDedup(sorted)
    /\ UNCHANGED <<transcriptData, segments, lines, result, pass, firstPass>>
    /\ UNCHANGED <<pvars, svars, cvars, fvars>>

Next ==
    \/ ReturnString
    \/ ReturnFallback
    \/ Extract
    \/ NormalizeThrows
    \/ Normalize
    \/ DedupOuter
    \/ DedupInnerEnd
    \/ DedupSkip
    \/ DedupBreak
    \/ DedupCompare
    \/ DedupReturn
    \/ Format

Spec == Init /\ [][Next]_vars

----------------------------------------------------------------------------
(* The panel processor.  The HTML of a panel is held as the tree cheerio     *)
(* builds from it: a sequence of nodes [tag, text, kids], "#text" for a text *)
(* node; an h3 or p holds its text, a ul its li nodes, a div its children.   *)

Node(tag, text, kids) == [tag |-> tag, text |-> text, kids |-> kids, attribs |-> {}]
IsElement(n) == n.tag # "#text"

\* <input ...>: attribs is the set of <<name, value>> pairs of its attributes
Input(attribs) == [tag |-> "input", text |-> <<>>, kids |-> <<>>, attribs |-> attribs]
CHECKBOX == <<"type", "checkbox">>
CHECKED == <<"checked", "">>

\* whitespace runs become one space and the ends are trimmed, as Turndown
\* does with the text of a block
RECURSIVE CollapseRuns(_)
CollapseRuns(s) ==
    IF Len(s) = 0 THEN <<>>
    ELSE IF IsWhitespace(s[1])
         THEN IF Len(s) > 1 /\ IsWhitespace(s[2]) THEN CollapseRuns(Tail(s))
              ELSE <<" ">> \o CollapseRuns(Tail(s))
    ELSE <<s[1]>> \o CollapseRuns(Tail(s))

CollapseWhitespace(s) == Trim(CollapseRuns(s))

\* TurndownService.escape on the characters of this model: brackets and
\* backslashes get a backslash, so does a dash that starts the text
RECURSIVE EscapeFrom(_, _)
EscapeFrom(s, k) ==
    IF k > Len(s) THEN <<>>
    ELSE (IF s[k] \in {"[", "]", "\\"} \/ (k = 1 /\ s[k] = "-")
          THEN <<"\\", s[k]>> ELSE <<s[k]>>) \o EscapeFrom(s, k + 1)

InlineText(text) == EscapeFrom(CollapseWhitespace(text), 1)

\* the blocks that are not empty, two newlines between them
RECURSIVE JoinBlocks(_)
JoinBlocks(blocks) ==
    IF Len(blocks) = 0 THEN <<>>
    ELSE LET rest == JoinBlocks(Tail(blocks))
         IN  IF Len(blocks[1]) = 0 THEN rest
             ELSE IF Len(rest) = 0 THEN blocks[1]
             ELSE blocks[1] \o <<"\n", "\n">> \o rest

\* node.name as a Turndown rule reads it.  Turndown parses the HTML string it
\* is given into DOM nodes of its own, which carry nodeName; of the elements
\* here only an input has a name property, the value of its name attribute
NameProperty(n) ==
    IF n.tag = "input"
    THEN IF \E a \in n.attribs : a[1] = "name"
         THEN JsString((CHOOSE a \in n.attribs : a[1] = "name")[2])
         ELSE JsString(<<>>)
    ELSE Undefined

\* node.attribs?.type as a rule reads it: a DOM node has attributes, no attribs
AttribsType(n) == Undefined

\* the filter of the checkbox rule
checkboxFilter(n) ==
    NameProperty(n) = JsString(<<"input">>) /\ AttribsType(n) = JsString(<<"checkbox">>)

\* the filter of the checklistItem rule
checklistItemFilter(n) ==
    IF NameProperty(n) # JsString(<<"li">>) THEN FALSE
    ELSE \E k \in 1..Len(n.kids) : checkboxFilter(n.kids[k])

\* the replacement of the checklistItem rule, without its final newline
checklistItemReplacement(content, n) ==
    <<"-", " ", "[">>
        \o (IF \E k \in 1..Len(n.kids) : CHECKED \in n.kids[k].attribs
            THEN <<"x">> ELSE <<" ">>)
        \o <<"]", " ">> \o Trim(content)

\* the listItem rule, without its final newline
listItemReplacement(content) == <<"-", " ">> \o Trim(content)

\* Turndown's isBlank: no text and no void element such as an input inside
IsBlankItem(n) == Len(CollapseWhitespace(n.text)) = 0 /\ Len(n.kids) = 0

\* one li: the rules added later are tried first; an input inside renders as
\* '' under the checkbox rule and under Turndown's default rule alike
RenderItem(n) ==
    LET content == InlineText(n.text)
    IN  IF checklistItemFilter(n) THEN checklistItemReplacement(content, n)
        ELSE listItemReplacement(content)

\* the li elements of a list, a newline after each but the last; a blank li
\* renders nothing
RECURSIVE RenderItems(_)
RenderItems(items) ==
    IF Len(items) = 0 THEN <<>>
    ELSE LET rest == RenderItems(Tail(items))
         IN  IF IsBlankItem(items[1]) THEN rest
             ELSE IF Len(rest) = 0 THEN RenderItem(items[1])
             ELSE RenderItem(items[1]) \o <<"\n">> \o rest

\* Turndown's rendering of one node that is not a div (headingStyle: 'atx')
RenderLeaf(n) ==
    CASE n.tag = "p" -> InlineText(n.text)
      [] n.tag = "#text" -> InlineText(n.text)
      [] n.tag = "h3" -> IF Len(InlineText(n.text)) = 0 THEN <<>>
                         ELSE <<"###", " ">> \o InlineText(n.text)
      [] n.tag = "ul" -> RenderItems(n.kids)
      \* <pre><code>: a fenced block holding the code's text as it is, less
      \* one final newline (codeBlockStyle: 'fenced'); a blank one renders
      \* nothing.  The token "FENCE" stands for the three backquotes.
      [] n.tag = "pre" ->
            IF Len(Trim(n.text)) = 0 THEN <<>>
            ELSE <<"FENCE", "\n">>
                    \o (IF n.text[Len(n.text)] = "\n"
                        THEN SubSeq(n.text, 1, Len(n.text) - 1) ELSE n.text)
                    \o <<"\n", "FENCE">>
      [] OTHER -> <<>>

RenderNode(n) ==
    IF n.tag = "div"
    THEN JoinBlocks([k \in 1..Len(n.kids) |-> RenderLeaf(n.kids[k])])
    ELSE RenderLeaf(n)

\* turndownService.turndown(html) of the HTML of these nodes
Turndown(nodes) == JoinBlocks([k \in 1..Len(nodes) |-> RenderNode(nodes[k])])

\* $(h3Element).nextUntil('h3'): the following sibling elements up to the next h3
RECURSIVE NextUntilH3(_, _)
NextUntilH3(siblings, k) ==
    IF k + 1 > Len(siblings) THEN <<>>
    ELSE IF siblings[k + 1].tag = "h3" THEN <<>>
    ELSE (IF IsElement(siblings[k + 1]) THEN <<siblings[k + 1]>> ELSE <<>>)
             \o NextUntilH3(siblings, k + 1)

\* the positions of the h3 elements among these siblings
RECURSIVE H3Among(_, _)
H3Among(siblings, k) ==
    IF k > Len(siblings) THEN <<>>
    ELSE (IF siblings[k].tag = "h3"
          THEN << [siblings |-> siblings, at |-> k] >> ELSE <<>>)
             \o H3Among(siblings, k + 1)

\* $('h3'): every h3 of the document, in document order
RECURSIVE H3From(_, _)
H3From(dom, k) ==
    IF k > Len(dom) THEN <<>>
    ELSE (IF dom[k].tag = "h3" THEN << [siblings |-> dom, at |-> k] >>
          ELSE IF dom[k].tag = "div" THEN H3Among(dom[k].kids, 1)
          ELSE <<>>) \o H3From(dom, k + 1)

H3Elements(dom) == H3From(dom, 1)

\* $(h3Element).text().trim()
TitleOf(h) == Trim(h.siblings[h.at].text)
\* turndownService.turndown(contentHtml).trim()
ContentOf(h) == Trim(Turndown(NextUntilH3(h.siblings, h.at)))

\* the h3s.each callback, pushing whatever it is given
EmitsSectionAlways(h) == TRUE

\* if (title && contentMarkdown)
EmitsSection(h) == TitleOf(h) # <<>> /\ ContentOf(h) # <<>>

\* the indices of the h3 elements of the panel whose section is pushed
RECURSIVE EmittedFrom(_, _)
EmittedFrom(h3s, k) ==
    IF k > Len(h3s) THEN <<>>
    ELSE (IF EmitsSection(h3s[k]) THEN <<k>> ELSE <<>>) \o EmittedFrom(h3s, k + 1)

\* EmittedFrom walking the headings from the last to the first
RECURSIVE EmittedBackwards(_, _)
EmittedBackwards(h3s, k) ==
    IF k > Len(h3s) THEN <<>>
    ELSE EmittedBackwards(h3s, k + 1)
             \o (IF EmitsSection(h3s[k]) THEN <<k>> ELSE <<>>)

EmittedIndicesReversed(panel) ==
    IF ~Truthy(panel.original_content) THEN <<>>
    ELSE EmittedBackwards(H3Elements(panel.original_content.dom), 1)

\* extractSectionsFromPanel: which headings yield a section, in push order
EmittedIndices(panel) ==
    IF ~Truthy(panel.original_content) THEN <<>>
    ELSE EmittedFrom(H3Elements(panel.original_content.dom), 1)

extractSectionsFromPanel(panel) ==
    LET h3s == H3Elements(panel.original_content.dom)
        idx == EmittedIndices(panel)
    IN  [k \in 1..Len(idx) |->
            [title |-> TitleOf(h3s[idx[k]]), content |-> ContentOf(h3s[idx[k]])]]

\* String.prototype.replace(/pat/g, rep) for a pattern that is a fixed string
RECURSIVE ReplaceAll(_, _, _)
ReplaceAll(s, pat, rep) ==
    IF Len(s) < Len(pat) THEN s
    ELSE IF SubSeq(s, 1, Len(pat)) = pat
         THEN rep \o ReplaceAll(SubSeq(s, Len(pat) + 1, Len(s)), pat, rep)
    ELSE <<s[1]>> \o ReplaceAll(Tail(s), pat, rep)

\* the length of the run of \s characters that starts at k
RECURSIVE WsRun(_, _)
WsRun(s, k) ==
    IF k > Len(s) \/ ~IsWhitespace(s[k]) THEN 0 ELSE 1 + WsRun(s, k + 1)

\* ^ under the m flag
AtLineStart(s, k) == k = 1 \/ s[k - 1] = "\n"

\* result.replace(/^(-\s+)(\s{2,})/gm, '$1'): of a run of n >= 3 \s characters
\* after the dash, group 1 backtracks to n - 2 of them and group 2 takes 2
RECURSIVE FixDash(_, _)
FixDash(s, k) ==
    IF k > Len(s) THEN <<>>
    ELSE IF AtLineStart(s, k) /\ s[k] = "-" /\ WsRun(s, k + 1) >= 3
         THEN LET n == WsRun(s, k + 1)
              IN  SubSeq(s, k, k + n - 2) \o FixDash(s, k + n + 1)
    ELSE <<s[k]>> \o FixDash(s, k + 1)

\* -\s+\[[x\s]\] matches at k and is w tokens long (0: no match)
CheckboxAt(s, k) ==
    LET w == WsRun(s, k + 1)
    IN  IF /\ AtLineStart(s, k)
           /\ s[k] = "-"
           /\ w >= 1
           /\ k + w + 3 <= Len(s)
           /\ s[k + w + 1] = "["
           /\ (s[k + w + 2] = "x" \/ IsWhitespace(s[k + w + 2]))
           /\ s[k + w + 3] = "]"
        THEN w + 4 ELSE 0

\* result.replace(/^(-\s+\[[x\s]\])(\s{2,})/gm, '$1 ')
RECURSIVE FixCheckbox(_, _)
FixCheckbox(s, k) ==
    IF k > Len(s) THEN <<>>
    ELSE IF CheckboxAt(s, k) > 0 /\ WsRun(s, k + CheckboxAt(s, k)) >= 2
         THEN LET w == CheckboxAt(s, k)
              IN  SubSeq(s, k, k + w - 1) \o <<" ">>
                     \o FixCheckbox(s, k + w + WsRun(s, k + w))
    ELSE <<s[k]>> \o FixCheckbox(s, k + 1)

\* the four replace calls that end processPanels
PostProcess(s) ==
    LET u1 == ReplaceAll(s, <<"\\", "[", " ", "\\", "]">>, <<"[", " ", "]">>)
        u2 == ReplaceAll(u1, <<"\\", "[", "x", "\\", "]">>, <<"[", "x", "]">>)
    IN  FixCheckbox(FixDash(u2, 1), 1)

\* `### ${section.title}\n${section.content}`
MarkdownSection(section) ==
    <<"###", " ">> \o section.title \o <<"\n">> \o section.content

Html(dom) == [t |-> "string", s |-> IF dom = <<>> THEN <<>> ELSE <<"html">>,
              dom |-> dom]

H3(text) == Node("h3", text, <<>>)
Para(text) == Node("p", text, <<>>)
List(texts) == Node("ul", <<>>, [k \in 1..Len(texts) |-> Node("li", texts[k], <<>>)])
\* <ul><li><input type="checkbox" [checked]>text</li></ul>
Checklist(checked, text) ==
    Node("ul", <<>>,
         << Node("li", text,
                 << Input(IF checked THEN {CHECKBOX, CHECKED} ELSE {CHECKBOX}) >>) >>)

\* the panel contents the panel lists are built from
PanelContents ==
    { Undefined,
      Html(<<>>),
      Html(<<Para(<<"Text">>)>>),
      Html(<<H3(<<"Agenda">>), List(<< <<"Item", " ", "A">> >>),
             H3(<<"Notes">>), Para(<<"Text">>)>>),
      Html(<<H3(<<"Agenda">>), H3(<<" ", "Notes">>), Para(<<"Text">>)>>),
      Html(<<H3(<<"Agenda">>), Para(<<"Text">>), H3(<<"Notes">>)>>),
      Html(<<H3(<<" ">>), Para(<<"Text">>), H3(<<"Tasks">>), Para(<<" ">>)>>),
      Html(<<H3(<<"Agenda">>), Node("#text", <<"Text">>, <<>>)>>),
      Html(<<Node("div", <<>>, <<H3(<<"Tasks">>), Para(<<"Text">>)>>),
             H3(<<"Notes">>), List(<< <<"Item", " ", "A">>, <<"B">> >>),
             Para(<<"More">>)>>),
      Html(<<H3(<<"Agenda">>),
             Node("div", <<>>, <<H3(<<"Notes">>), Para(<<"Text">>)>>)>>),
      Html(<<H3(<<"Tasks">>), Checklist(TRUE, <<" ", "Done">>)>>),
      Html(<<H3(<<"Tasks">>), Checklist(FALSE, <<" ", "Done">>)>>),
      Html(<<H3(<<"Tasks">>), List(<< <<"[", " ", "]">> >>),
             H3(<<"Notes">>), List(<< <<"[", "x", "]", " ", "Done">> >>)>>),
      Html(<<H3(<<"Code">>),
             Node("pre", <<"-", " ", " ", "x", "\n",
                           "-", " ", " ", " ", " ", "z">>, <<>>)>>),
      Html(<<H3(<<"Code">>),
             Node("pre", <<"-", " ", " ", " ", "y", "\n",
                           "-", " ", "[", "x", "]", " ", " ", "v">>, <<>>)>>) }

PanelLists ==
    UNION { [1..n -> {[original_content |-> c, template_slug |-> <<"slug">>] :
                         c \in PanelContents}] : n \in 0..MaxPanels }

InitPanels ==
    /\ SimilarityIdle
    /\ FailuresIdle
    /\ transcriptData = Undefined
    /\ TranscriptIdle
    /\ SyncIdle
    /\ panels \in {Undefined} \cup {JsArray(a) : a \in PanelLists}
    /\ p = 1
    /\ allSections = <<>>
    /\ origins = <<>>
    /\ panelResult = Undefined
    /\ pc = "processPanels"

\* if (!panels || panels.length === 0) return '';
PanelsReturnEmpty ==
    /\ pc = "processPanels"
    /\ IF Truthy(panels) THEN Len(panels.a) = 0 ELSE TRUE
    /\ panelResult' = JsString(<<>>)
    /\ pc' = "returned"
    /\ UNCHANGED <<panels, p, allSections, origins>>
    /\ UNCHANGED <<tvars, svars, cvars, fvars>>

\* panels.flatMap(panel => extractSectionsFromPanel(panel)), one panel
ExtractPanel ==
    /\ pc = "processPanels"
    /\ Truthy(panels)
    /\ p <= Len(panels.a)
    /\ allSections' = allSections \o extractSectionsFromPanel(panels.a[p])
    /\ origins' = origins \o
          [k \in 1..Len(EmittedIndices(panels.a[p])) |->
              <<p, EmittedIndices(panels.a[p])[k]>>]
    /\ p' = p + 1
    /\ UNCHANGED <<panels, panelResult, pc>>
    /\ UNCHANGED <<tvars, svars, cvars, fvars>>

\* the map, the join and the four replace calls
RenderPanels ==
    /\ pc = "processPanels"
    /\ Truthy(panels)
    /\ Len(panels.a) > 0
    /\ p > Len(panels.a)
    /\ panelResult' = JsString(PostProcess(
          Join([k \in 1..Len(allSections) |-> MarkdownSection(allSections[k])],
               <<"\n", "\n">>)))
    /\ pc' = "returned"
    /\ UNCHANGED <<panels, p, allSections, origins>>
    /\ UNCHANGED <<tvars, svars, cvars, fvars>>

NextPanels ==
    \/ PanelsReturnEmpty
    \/ ExtractPanel
    \/ RenderPanels

SpecPanels == InitPanels /\ [][NextPanels]_vars

----------------------------------------------------------------------------
(* sync.ts: categorisation, the vault index and the three handlers.  A path  *)
(* of the vault is <<folder, name>>; a meeting file is a record, Absent when *)
(* there is no file at the path.                                             *)

\* processPanels as a function of its argument
RECURSIVE FlatMapSections(_, _)
FlatMapSections(list, k) ==
    IF k > Len(list) THEN <<>>
    ELSE extractSectionsFromPanel(list[k]) \o FlatMapSections(list, k + 1)

processPanels(list) ==
    IF ~Truthy(list) THEN <<>>
    ELSE IF Len(list.a) = 0 THEN <<>>
    ELSE LET sections == FlatMapSections(list.a, 1)
         IN  PostProcess(Join([k \in 1..Len(sections) |-> MarkdownSection(sections[k])],
                              <<"\n", "\n">>))

TEMPLATE_SLUG == <<"b491d27c">>

\* panels.sort((a, b) => (b is the template ? 1 : 0) - (a is the template ? 1 : 0))
SortPanels(list) ==
    SelectSeq(list, LAMBDA x : x.template_slug = TEMPLATE_SLUG)
        \o SelectSeq(list, LAMBDA x : x.template_slug # TEMPLATE_SLUG)

\* meeting-mappings.json: keyword and target name, in the order of the entries
meetingMappings ==
    [oneOnOne |-> << [keyword |-> <<"Ann">>, name |-> <<"Ann">>] >>,
     recurring |-> << [keyword |-> <<"standup">>, name |-> <<"Standup">>] >>]

\* process.env.OWNER_EMAILS
OWNER_EMAILS == {<<"me", "@", "x">>}

ensureTitle(title) ==
    IF title = Undefined THEN <<"No Title Found">>
    ELSE IF Len(Trim(title.s)) > 0 THEN Trim(title.s) ELSE <<"No Title Found">>

\* /\b(1\s*<>\s*1|1[:U+FF1A]1|1-1|meeting\s+with)\b/i on titles whose words are tokens
isOneOnOneTitle(title) ==
    \E k \in 1..Len(title) : title[k] \in {"1<>1", "1:1", "1-1"}

\* /1\s*<>\s*1/i.test(meeting.workspace?.name || "")
isOneOnOneByFolder(meeting) ==
    Includes(meeting.workspace, <<"1", " ", "<>", " ", "1">>)

Category(type, targetName) == [type |-> type, targetName |-> targetName]

\* the first entry of a mapping whose keyword the lower-cased title includes
RECURSIVE FirstMapping(_, _, _)
FirstMapping(entries, titleLower, k) ==
    IF k > Len(entries) THEN Undefined
    ELSE IF Includes(titleLower, ToLowerCase(entries[k].keyword))
         THEN JsString(entries[k].name)
    ELSE FirstMapping(entries, titleLower, k + 1)

categorizeMeeting(title) ==
    LET titleLower == ToLowerCase(title)
        one == FirstMapping(meetingMappings.oneOnOne, titleLower, 1)
        rec == FirstMapping(meetingMappings.recurring, titleLower, 1)
    IN  IF isOneOnOneTitle(title) /\ one # Undefined THEN Category("oneOnOne", one.s)
        ELSE IF rec # Undefined THEN Category("recurring", rec.s)
        ELSE Category("adHoc", <<>>)

\* the text of an e-mail address before its "@"
RECURSIVE LocalPart(_)
LocalPart(email) ==
    IF Len(email) = 0 \/ email[1] = "@" THEN <<>>
    ELSE <<email[1]>> \o LocalPart(Tail(email))

\* null (here Undefined) unless exactly one attendee is neither an owner nor
\* the creator and has a display name
categorizeOneOnOneFromMetadata(metadata) ==
    LET notOwner == SelectSeq(metadata.attendees,
                       LAMBDA a : Len(a.email) = 0 \/ ToLowerCase(a.email) \notin OWNER_EMAILS)
        candidates == IF Len(metadata.creator.email) > 0
                      THEN SelectSeq(notOwner,
                              LAMBDA a : \/ Len(a.email) = 0
                                         \/ ToLowerCase(a.email) # ToLowerCase(metadata.creator.email))
                      ELSE notOwner
        displayName == IF Len(Trim(candidates[1].name)) > 0 THEN Trim(candidates[1].name)
                       ELSE LocalPart(candidates[1].email)
    IN  IF Len(metadata.attendees) = 0 THEN Undefined
        ELSE IF Len(candidates) # 1 THEN Undefined
        ELSE IF Len(displayName) = 0 THEN Undefined
        ELSE Category("oneOnOne", Trim(displayName))

\* new Date(created_at) shown as date.toLocaleDateString("en-CA", { timeZone:
\* "America/Los_Angeles" }): the day in Pacific time
PacificDateString(created_at) ==
    CASE created_at = <<"2024-01-01T20:00:00Z">> -> <<"2024-01-01">>
      [] created_at = <<"2024-01-03T02:00:00Z">> -> <<"2024-01-02">>
      [] OTHER -> <<"Invalid Date">>

\* one character of handleAdHocMeeting's cleanTitle
CleanChar(c) ==
    CASE c \in {"/", "\\"} -> "U+FF65"
      [] c = ":" -> "U+FF1A"
      [] c = "1:1" -> "1U+FF1A1"
      [] c = "*" -> "U+2731"
      [] c = "?" -> "U+FF1F"
      [] c = "\"" -> "'"
      [] c = "<" -> "U+2039"
      [] c = ">" -> "U+203A"
      [] c = "|" -> "U+FF5C"
      [] OTHER -> c

cleanTitle(title) == Trim(CollapseRuns([k \in 1..Len(title) |-> CleanChar(title[k])]))

OneOnOnePath(personName) == <<"1 <> 1">> \o personName
RecurringPath(meetingName) == <<"Recurring">> \o meetingName
AdHocPath(dateStr, title) == <<"Ad-hoc">> \o dateStr \o <<" - ">> \o title

Absent == [exists |-> FALSE]

\* a 1:1 or recurring file: its synced_meetings front matter, whether its body
\* holds the meta-bind-button block, and its dated sections from the top down
TargetFile(synced_meetings, button, sections) ==
    [exists |-> TRUE, kind |-> "target", synced_meetings |-> synced_meetings,
     button |-> button, sections |-> sections]

\* a dated section; id is not text of the file: it records the meeting the
\* section was written for
MeetingSection(heading, data) ==
    [heading |-> heading, dateStr |-> data.dateStr, panelContent |-> data.panelContent,
     id |-> data.id]

HandlerResult(success, action, filePath) ==
    [success |-> success, action |-> action, filePath |-> filePath]

InSeq(x, seq) == \E k \in 1..Len(seq) : seq[k] = x

\* AppendOrCreate without the test of synced_meetings
AppendOrCreateUnchecked(v, path, heading, data, force) ==
    LET file == v[path]
        newSection == MeetingSection(heading, data)
    IN  IF file.exists
        THEN [vault |-> [v EXCEPT ![path] =
                 TargetFile(IF InSeq(data.id, file.synced_meetings)
                            THEN file.synced_meetings
                            ELSE Append(file.synced_meetings, data.id),
                            file.button,
                            IF file.button THEN <<newSection>> \o file.sections
                            ELSE file.sections)],
              logged |-> <<"Appended to">>,
              result |-> HandlerResult(TRUE, <<"Appended to">>, path)]
        ELSE [vault |-> [v EXCEPT ![path] = TargetFile(<<data.id>>, TRUE, <<newSection>>)],
              logged |-> <<"Created">>,
              result |-> HandlerResult(TRUE, <<"Created new">>, path)]

\* try { access; readFile; matter; includes; replace; writeFile } catch { create }
\* of handleOneOnOneMeeting and handleRecurringMeeting: the vault after the call,
\* the result, and the action logged to the daily note
AppendOrCreate(v, path, heading, data, force) ==
    LET file == v[path]
        newSection == MeetingSection(heading, data)
    IN  IF file.exists
        THEN IF InSeq(data.id, file.synced_meetings) /\ ~force
             THEN [vault |-> v, logged |-> <<>>,
                   result |-> HandlerResult(FALSE, <<"Already synced to">>, path)]
             ELSE [vault |-> [v EXCEPT ![path] =
                      TargetFile(IF InSeq(data.id, file.synced_meetings)
                                 THEN file.synced_meetings
                                 ELSE Append(file.synced_meetings, data.id),
                                 file.button,
                                 IF file.button THEN <<newSection>> \o file.sections
                                 ELSE file.sections)],
                   logged |-> <<"Appended to">>,
                   result |-> HandlerResult(TRUE, <<"Appended to">>, path)]
        ELSE [vault |-> [v EXCEPT ![path] = TargetFile(<<data.id>>, TRUE, <<newSection>>)],
              logged |-> <<"Created">>,
              result |-> HandlerResult(TRUE, <<"Created new">>, path)]

\* the steps after access that can fail once the target file exists
TrySteps == {"readFile", "matter", "writeFile", "logToDaily"}

\* handleOneOnOneMeeting / handleRecurringMeeting for a file that exists when
\* step `failed` fails.  logToDaily keeps its failures to itself (its catch
\* blocks, 885-916) and the call goes on without the daily entry; writeFile is
\* not reached when the id is already synced; any other failure is thrown into
\* the catch block, which writes a fresh file unless its own writeFile is
\* rejected too (catchWrites), and then the call rejects
AppendOrCreateFailing(v, path, heading, data, force, failed, catchWrites) ==
    LET normal == AppendOrCreate(v, path, heading, data, force)
    IN  IF failed = "logToDaily"
        THEN [vault |-> normal.vault, logged |-> <<>>, result |-> normal.result,
              rejected |-> FALSE]
        ELSE IF failed = "writeFile" /\ ~normal.result.success
        THEN [vault |-> v, logged |-> <<>>, result |-> normal.result, rejected |-> FALSE]
        ELSE IF catchWrites
        THEN [vault |-> [v EXCEPT ![path] =
                            TargetFile(<<data.id>>, TRUE, <<MeetingSection(heading, data)>>)],
              logged |-> <<"Created">>,
              result |-> HandlerResult(TRUE, <<"Created new">>, path),
              rejected |-> FALSE]
        ELSE [vault |-> v, logged |-> <<>>, result |-> Undefined, rejected |-> TRUE]

handleOneOnOneMeeting(v, data, personName, force) ==
    AppendOrCreate(v, OneOnOnePath(personName), <<"## [[date]]">>, data, force)

handleRecurringMeeting(v, data, meetingName, force) ==
    AppendOrCreate(v, RecurringPath(meetingName), <<"# date">>, data, force)

\* process.env.SYNC_TRANSCRIPT and TRANSCRIPT_TITLE_FILTER
syncTranscript == FALSE
transcriptTitleFilter == <<>>

shouldSyncTranscript(title) ==
    IF Len(transcriptTitleFilter) = 0 THEN syncTranscript
    ELSE \E k \in 1..Len(transcriptTitleFilter) :
            Includes(ToLowerCase(title), transcriptTitleFilter[k])

\* writes the file named after the date and the title, whatever is there
handleAdHocMeeting(v, data) ==
    LET path == AdHocPath(data.dateStr, cleanTitle(data.title))
    IN  [vault |-> [v EXCEPT ![path] =
                      [exists |-> TRUE, kind |-> "adhoc", source |-> <<"granola">>,
                       calendar_event_id |-> data.id,
                       panelContent |-> data.panelContent,
                       transcript |-> IF shouldSyncTranscript(data.title)
                                      THEN data.transcript ELSE <<>>]],
         logged |-> <<"Created ad hoc">>,
         result |-> HandlerResult(TRUE, <<"Created ad hoc">>, path)]

\* logToDaily: the entries of the day's note; an entry already there is not
\* added again, a missing note is made from the template
logToDaily(notes, dateStr, action, targetName) ==
    LET logEntry == <<action, targetName>>
    IN  IF action = <<>> THEN notes
        ELSE IF notes[dateStr].exists
        THEN IF InSeq(logEntry, notes[dateStr].entries) THEN notes
             ELSE [notes EXCEPT ![dateStr].entries = <<logEntry>> \o @]
        ELSE [notes EXCEPT ![dateStr] = [exists |-> TRUE, entries |-> <<logEntry>>]]

\* indexVaultMeetings: the granola notes under .trash, then every note of the
\* vault whose front matter has source "granola" and a calendar_event_id
indexVaultMeetings(v, trash) ==
    {[id |-> t, isDeleted |-> TRUE] : t \in trash}
        \cup {[id |-> v[path].calendar_event_id,
               isDeleted |-> v[path].calendar_event_id \in trash] :
                  path \in {q \in DOMAIN v : v[q].exists /\ v[q].kind = "adhoc"}}

\* hasContent(transcriptData, panels)
hasContent(data, list) ==
    \/ Len(ExtractSegments(data).a) > 0
    \/ /\ Truthy(list)
       /\ \E k \in 1..Len(list.a) :
             /\ Truthy(list.a[k].original_content)
             /\ Len(Trim(list.a[k].original_content.s)) > 0

\* summaryPanelReady taking any panel as evidence
summaryPanelReadyAnyPanel(list) == Len(list.a) > 0

\* panels.some(p => typeof p.original_content === "string" &&
\*                  p.original_content.trim().length > 0)
summaryPanelReady(list) ==
    \E k \in 1..Len(list.a) :
        /\ list.a[k].original_content.t = "string"
        /\ Len(Trim(list.a[k].original_content.s)) > 0

----------------------------------------------------------------------------
(* What the Granola API answers, and the vaults a run starts from *)

GranolaDoc(id, title, created_at, workspace) ==
    [id |-> id, title |-> JsString(title), created_at |-> created_at,
     workspace |-> workspace]

Attendee(name, email) == [name |-> name, email |-> email]
OWNER == Attendee(<<"Me">>, <<"me", "@", "x">>)
ANN == Attendee(<<"Ann">>, <<"ann", "@", "x">>)
BOB == Attendee(<<"Bob">>, <<"bob", "@", "x">>)

\* get-documents: a 1:1 named in the mappings, a recurring meeting, a meeting
\* of the "1 <> 1" folder whose title says nothing, and a plain meeting
Documents ==
    << GranolaDoc("m1", <<"1:1", " ", "Ann">>, <<"2024-01-01T20:00:00Z">>, <<>>),
       GranolaDoc("m2", <<"Standup">>, <<"2024-01-01T20:00:00Z">>, <<>>),
       GranolaDoc("m3", <<"Chat">>, <<"2024-01-03T02:00:00Z">>, <<"1", " ", "<>", " ", "1">>),
       GranolaDoc("m4", <<" ", "Plain">>, <<"2024-01-01T20:00:00Z">>, <<>>) >>

MeetingPool == {Documents[k] : k \in 1..Len(Documents)}

\* get-document-metadata
MetadataOf(id) ==
    CASE id = "m1" -> [attendees |-> <<OWNER, ANN>>, creator |-> OWNER]
      [] id = "m2" -> [attendees |-> <<OWNER, ANN, BOB>>, creator |-> OWNER]
      [] id = "m3" -> [attendees |-> <<ANN, OWNER>>, creator |-> OWNER]
      [] OTHER -> [attendees |-> <<>>, creator |-> Attendee(<<>>, <<>>)]

Panel(content, slug) == [original_content |-> content, template_slug |-> slug]
BlankHtml == [t |-> "string", s |-> <<" ">>, dom |-> <<>>]
FetchFailed == [t |-> "error", s |-> <<>>]

\* get-document-panels: a failed request, null, no panel, panels without
\* content, and panels with content (the template's panel last)
PanelResponses ==
    { FetchFailed,
      JsNull,
      JsArray(<<>>),
      JsArray(<<Panel(Undefined, <<"slug">>)>>),
      JsArray(<<Panel(BlankHtml, <<"slug">>), Panel(Html(<<>>), TEMPLATE_SLUG)>>),
      JsArray(<<Panel(Html(<<H3(<<"Notes">>), Para(<<"Text">>)>>), <<"slug">>),
                Panel(Html(<<H3(<<"Agenda">>), List(<< <<"Item", " ", "A">> >>)>>),
                      TEMPLATE_SLUG)>>) }

\* get-document-transcript
TranscriptResponses ==
    { JsArray(<<>>),
      JsArray(<<RawSegment(JsString(<<"a", "b">>), JsString(MICROPHONE), T0, T1000)>>) }

\* processTranscript of an input of at most one segment, which sorting and
\* deduplication leave as it is
processTranscriptOfOne(data) ==
    Join(formatLines(FilterMap(ExtractSegments(data).a)), <<"\n">>)

TargetNames == {<<"Ann">>, <<"Standup">>}
DateStrings == {PacificDateString(d.created_at) : d \in MeetingPool}

VaultPaths ==
    {OneOnOnePath(n) : n \in TargetNames} \cup {RecurringPath(n) : n \in TargetNames}
        \cup {AdHocPath(PacificDateString(d.created_at), cleanTitle(ensureTitle(d.title))) :
                 d \in MeetingPool}

\* the meeting lists get-documents answers with: no meeting twice, in the
\* order of Documents
MeetingLists ==
    UNION { {[k \in 1..n |-> Documents[f[k]]] :
                f \in {g \in [1..n -> 1..Len(Documents)] :
                          \A a, b \in 1..n : a < b => g[a] < g[b]}} :
               n \in 0..MaxMeetings }

----------------------------------------------------------------------------
(* main of sync.ts: one run after another over the same vault *)

AdHocPathOf(d) == AdHocPath(PacificDateString(d.created_at), cleanTitle(ensureTitle(d.title)))

\* the note of an earlier run that filed the meeting as ad hoc
AdHocNote(d) ==
    [exists |-> TRUE, kind |-> "adhoc", source |-> <<"granola">>,
     calendar_event_id |-> d.id, panelContent |-> <<>>, transcript |-> <<>>]

SyncNotRunning == pc \in {"idle", "done", "failed"}

InitSync ==
    /\ SimilarityIdle
    /\ FailuresIdle
    /\ transcriptData = Undefined
    /\ TranscriptIdle
    /\ PanelsIdle
    /\ \E ann \in {Absent,
                   TargetFile(<<>>, FALSE, <<>>),
                   TargetFile(<<"m1">>, TRUE,
                       <<[heading |-> <<"## [[date]]">>, dateStr |-> <<"2024-01-01">>,
                          panelContent |-> <<>>, id |-> "m1"]>>)} :
      \E filed \in {Absent, AdHocNote(Documents[1])} :
          vault = [path \in VaultPaths |->
                      IF path = OneOnOnePath(<<"Ann">>) THEN ann
                      ELSE IF path = AdHocPathOf(Documents[1]) THEN filed
                      ELSE Absent]
    /\ daily = [d \in DateStrings |-> Absent]
    /\ trashed \in {{}, {"m4"}, {"m1"}}
    /\ forceDocumentId = Undefined
    /\ existingMeetings = {}
    /\ meetings = <<>>
    /\ meetingIndex = 1
    /\ fetched = Undefined
    /\ meetingData = Undefined
    /\ handlerResult = Undefined
    /\ processedCount = 0
    /\ skippedCount = 0
    /\ run = 0
    /\ forced = FALSE
    /\ pc = "idle"

\* main up to the loop: index the vault, ask for the documents, keep the
\* forced one in force mode; no meeting at all makes the run fail
StartRun ==
    /\ SyncNotRunning
    /\ run < MaxRuns
    /\ \E force \in {Undefined, JsString(<<"m1">>)}, allMeetings \in MeetingLists :
          LET filtered == IF Truthy(force)
                          THEN SelectSeq(allMeetings, LAMBDA d : <<d.id>> = force.s)
                          ELSE allMeetings
          IN  /\ forced' = (forced \/ Truthy(force))
              /\ IF Len(filtered) > 0
                 THEN /\ forceDocumentId' = force
                      /\ meetings' = filtered
                      /\ existingMeetings' = indexVaultMeetings(vault, trashed)
                      /\ pc' = "loop"
                 ELSE /\ forceDocumentId' = Undefined
                      /\ meetings' = <<>>
                      /\ existingMeetings' = {}
                      /\ pc' = IF Truthy(force) THEN "done" ELSE "failed"
    /\ run' = run + 1
    /\ meetingIndex' = 1
    /\ fetched' = Undefined
    /\ meetingData' = Undefined
    /\ handlerResult' = Undefined
    /\ processedCount' = 0
    /\ skippedCount' = 0
    /\ UNCHANGED <<vault, daily, trashed>>
    /\ UNCHANGED <<tvars, pvars, cvars, fvars>>

meeting == meetings[meetingIndex]
isForceMode == Truthy(forceDocumentId)

\* the deleted entry is honoured outside force mode only
IsDeletedUnlessForced(d) ==
    ~isForceMode /\ \E em \in existingMeetings : em.id = d.id /\ em.isDeleted

\* existingMeetings.find(em => em.id === meeting.id)?.isDeleted: every entry
\* with the id of a trashed note carries isDeleted
IsDeleted(d) == \E em \in existingMeetings : em.id = d.id /\ em.isDeleted
\* existingMeetings.find(em => em.id === meeting.id && !em.isDeleted)
ExistingFiled(d) == \E em \in existingMeetings : em.id = d.id /\ ~em.isDeleted

Continue ==
    /\ meetingIndex' = meetingIndex + 1
    /\ fetched' = Undefined
    /\ meetingData' = Undefined
    /\ pc' = "loop"

InLoop == pc = "loop" /\ meetingIndex <= Len(meetings)

\* if (existingMeeting?.isDeleted) continue;
SkipDeleted ==
    /\ InLoop
    /\ IsDeleted(meeting)
    /\ Continue
    /\ UNCHANGED <<vault, daily, trashed, forceDocumentId, existingMeetings, meetings,
                   handlerResult, processedCount, skippedCount, run, forced>>
    /\ UNCHANGED <<tvars, pvars, cvars, fvars>>

\* if (!isForceMode) { ... continue; }: both tests hold of any filed note
SkipExisting ==
    /\ InLoop
    /\ ~IsDeleted(meeting)
    /\ ~isForceMode
    /\ ExistingFiled(meeting)
    /\ Continue
    /\ UNCHANGED <<vault, daily, trashed, forceDocumentId, existingMeetings, meetings,
                   handlerResult, processedCount, skippedCount, run, forced>>
    /\ UNCHANGED <<tvars, pvars, cvars, fvars>>

\* panels = await getPanels(meeting.id, token), a failed request is skipped
GetPanels ==
    /\ InLoop
    /\ ~IsDeleted(meeting)
    /\ isForceMode \/ ~ExistingFiled(meeting)
    /\ \E response \in PanelResponses :
          IF response = FetchFailed THEN Continue
          ELSE /\ fetched' = response
               /\ pc' = "panels"
               /\ UNCHANGED <<meetingIndex, meetingData>>
    /\ UNCHANGED <<vault, daily, trashed, forceDocumentId, existingMeetings, meetings,
                   handlerResult, processedCount, skippedCount, run, forced>>
    /\ UNCHANGED <<tvars, pvars, cvars, fvars>>

\* if (!panels || panels.length === 0) continue;
SkipNoPanels ==
    /\ pc = "panels"
    /\ IF Truthy(fetched) THEN Len(fetched.a) = 0 ELSE TRUE
    /\ Continue
    /\ UNCHANGED <<vault, daily, trashed, forceDocumentId, existingMeetings, meetings,
                   handlerResult, processedCount, skippedCount, run, forced>>
    /\ UNCHANGED <<tvars, pvars, cvars, fvars>>

\* if (!summaryPanelReady) continue;
SkipNotReady ==
    /\ pc = "panels"
    /\ Truthy(fetched)
    /\ Len(fetched.a) > 0
    /\ ~summaryPanelReady(fetched)
    /\ Continue
    /\ UNCHANGED <<vault, daily, trashed, forceDocumentId, existingMeetings, meetings,
                   handlerResult, processedCount, skippedCount, run, forced>>
    /\ UNCHANGED <<tvars, pvars, cvars, fvars>>

\* the category of the meeting, refined from the attendees when the title
\* alone says ad hoc
effectiveCategory(d) ==
    LET title == ensureTitle(d.title)
        category == categorizeMeeting(title)
        metadata == MetadataOf(d.id)
        attendeeCategory == categorizeOneOnOneFromMetadata(metadata)
    IN  IF /\ category.type = "adHoc"
           /\ isOneOnOneTitle(title) \/ isOneOnOneByFolder(d)
           /\ Len(metadata.attendees) > 0
           /\ attendeeCategory # Undefined
        THEN attendeeCategory ELSE category

\* the process ends and leaves the vault behind
Exit ==
    /\ forceDocumentId' = Undefined
    /\ existingMeetings' = {}
    /\ meetings' = <<>>
    /\ meetingIndex' = 1
    /\ fetched' = Undefined
    /\ meetingData' = Undefined
    /\ handlerResult' = Undefined
    /\ processedCount' = 0
    /\ skippedCount' = 0

\* a request for the metadata or the transcript is rejected: main throws
FetchThrows ==
    /\ pc = "panels"
    /\ Truthy(fetched)
    /\ Len(fetched.a) > 0
    /\ summaryPanelReady(fetched)
    /\ pc' = "failed"
    /\ Exit
    /\ UNCHANGED <<vault, daily, trashed, run, forced>>
    /\ UNCHANGED <<tvars, pvars, cvars, fvars>>

\* from the two requests to the MeetingData: a response that is not ok, a
\* meeting shouldSkipPastMeeting rejects and a meeting without content are
\* passed over
FetchData ==
    /\ pc = "panels"
    /\ Truthy(fetched)
    /\ Len(fetched.a) > 0
    /\ summaryPanelReady(fetched)
    /\ \E ok \in BOOLEAN, skip \in BOOLEAN, data \in TranscriptResponses :
          IF ~ok THEN Continue /\ UNCHANGED skippedCount
          ELSE IF skip \/ ~hasContent(data, fetched)
          THEN Continue /\ skippedCount' = skippedCount + 1
          ELSE /\ meetingData' =
                     [id |-> meeting.id,
                      title |-> ensureTitle(meeting.title),
                      dateStr |-> PacificDateString(meeting.created_at),
                      transcript |-> IF shouldSyncTranscript(ensureTitle(meeting.title))
                                     THEN processTranscriptOfOne(data) ELSE <<>>,
                      panelContent |-> processPanels(JsArray(SortPanels(fetched.a))),
                      category |-> effectiveCategory(meeting)]
               /\ pc' = "handle"
               /\ UNCHANGED <<meetingIndex, fetched, skippedCount>>
    /\ UNCHANGED <<vault, daily, trashed, forceDocumentId, existingMeetings, meetings,
                   handlerResult, processedCount, run, forced>>
    /\ UNCHANGED <<tvars, pvars, cvars, fvars>>

\* what a handler's call does to the vault, and its result
Handled(r) ==
    /\ vault' = r.vault
    /\ daily' = logToDaily(daily, meetingData.dateStr, r.logged, r.result.filePath)
    /\ handlerResult' = r.result
    /\ pc' = "handled"
    /\ UNCHANGED <<trashed, forceDocumentId, existingMeetings, meetings, meetingIndex,
                   fetched, meetingData, processedCount, skippedCount, run, forced>>
    /\ UNCHANGED <<tvars, pvars, cvars, fvars>>

HandleOneOnOne ==
    /\ pc = "handle"
    /\ meetingData.category.type = "oneOnOne"
    /\ Len(meetingData.category.targetName) > 0
    /\ Handled(handleOneOnOneMeeting(vault, meetingData,
                                     meetingData.category.targetName, isForceMode))

HandleRecurring ==
    /\ pc = "handle"
    /\ meetingData.category.type = "recurring"
    /\ Len(meetingData.category.targetName) > 0
    /\ Handled(handleRecurringMeeting(vault, meetingData,
                                      meetingData.category.targetName, isForceMode))

HandleAdHoc ==
    /\ pc = "handle"
    /\ \/ meetingData.category.type = "adHoc"
       \/ Len(meetingData.category.targetName) = 0
    /\ Handled(handleAdHocMeeting(vault, meetingData))

\* if (result.success && result.filePath) { processedCount++; ... }
CountProcessed ==
    /\ pc = "handled"
    /\ processedCount' = IF handlerResult.success THEN processedCount + 1
                         ELSE processedCount
    /\ handlerResult' = Undefined
    /\ Continue
    /\ UNCHANGED <<vault, daily, trashed, forceDocumentId, existingMeetings, meetings,
                   skippedCount, run, forced>>
    /\ UNCHANGED <<tvars, pvars, cvars, fvars>>

\* the loop is over: main logs its success and returns
EndRun ==
    /\ pc = "loop"
    /\ meetingIndex > Len(meetings)
    /\ pc' = "done"
    /\ Exit
    /\ UNCHANGED <<vault, daily, trashed, run, forced>>
    /\ UNCHANGED <<tvars, pvars, cvars, fvars>>

NextSync ==
    \/ StartRun
    \/ SkipDeleted
    \/ SkipExisting
    \/ GetPanels
    \/ SkipNoPanels
    \/ SkipNotReady
    \/ FetchThrows
    \/ FetchData
    \/ HandleOneOnOne
    \/ HandleRecurring
    \/ HandleAdHoc
    \/ CountProcessed
    \/ EndRun

SpecSync == InitSync /\ [][NextSync]_vars

\* a call of handleOneOnOneMeeting or handleRecurringMeeting for a file that
\* exists, with a step that fails; a call that rejects makes main throw
HandleFailing ==
    /\ pc = "handle"
    /\ meetingData.category.type \in {"oneOnOne", "recurring"}
    /\ Len(meetingData.category.targetName) > 0
    /\ LET oneOnOne == meetingData.category.type = "oneOnOne"
           path == IF oneOnOne THEN OneOnOnePath(meetingData.category.targetName)
                   ELSE RecurringPath(meetingData.category.targetName)
           heading == IF oneOnOne THEN <<"## [[date]]">> ELSE <<"# date">>
       IN  /\ vault[path].exists
           /\ \E failed \in TrySteps, catchWrites \in BOOLEAN :
                 LET r == AppendOrCreateFailing(vault, path, heading, meetingData,
                                                isForceMode, failed, catchWrites)
                 IN  IF r.rejected
                     THEN /\ pc' = "failed"
                          /\ Exit
                          /\ UNCHANGED <<vault, daily, trashed, run, forced>>
                          /\ UNCHANGED <<tvars, pvars, cvars, fvars>>
                     ELSE Handled(r)

NextSyncFaults ==
    \/ NextSync
    \/ HandleFailing

SpecSyncFaults == InitSync /\ [][NextSyncFaults]_vars

----------------------------------------------------------------------------
(* calculateSimilarity applied to every pair of texts of up to MaxTextLen   *)
(* characters                                                               *)

SimilarityChars == {"a", "b", "B"}
\* every text of up to MaxTextLen characters, and the runs of one character
\* of up to MaxRunLen characters
SimilarityTexts ==
    UNION { [1..n -> SimilarityChars] : n \in 0..MaxTextLen }
        \cup { [k \in 1..n |-> "a"] : n \in 0..MaxRunLen }

InitSimilarity ==
    /\ FailuresIdle
    /\ simText1 \in SimilarityTexts
    /\ simText2 \in SimilarityTexts
    /\ similarity = [num |-> 0, den |-> 1]
    /\ pc = "calculateSimilarity"
    /\ transcriptData = Undefined
    /\ TranscriptIdle
    /\ PanelsIdle
    /\ SyncIdle

CalculateSimilarity ==
    /\ pc = "calculateSimilarity"
    /\ similarity' = calculateSimilarity(simText1, simText2)
    /\ pc' = "similarityReturned"
    /\ UNCHANGED <<simText1, simText2>>
    /\ UNCHANGED <<tvars, pvars, svars, fvars>>

NextSimilarity == CalculateSimilarity

SpecSimilarity == InitSimilarity /\ [][NextSimilarity]_vars

----------------------------------------------------------------------------
(* The failure tracking of sync.ts: one process after another, each running *)
(* main and, when main rejects, the handler of main().catch.  What main     *)
(* does between its first line and its return is left open; of the failure  *)
(* count file it only writes "0" before it returns from its last line.      *)

\* String(n) and parseInt(content) on the contents the file can take
NumberToString(n) ==
    CASE n = 0 -> <<"0">> [] n = 1 -> <<"1">> [] n = 2 -> <<"2">>
      [] n = 3 -> <<"3">> [] n = 4 -> <<"4">> [] n = 5 -> <<"5">>
      [] n = 6 -> <<"6">> [] OTHER -> <<"7">>
\* parseInt: NaN for a text that does not start with a number
ParseInt(content) ==
    CASE content = <<"0">> -> Num(0) [] content = <<"1">> -> Num(1)
      [] content = <<"2">> -> Num(2) [] content = <<"3">> -> Num(3)
      [] content = <<"4">> -> Num(4) [] content = <<"5">> -> Num(5)
      [] content = <<"6">> -> Num(6) [] content = <<"7">> -> Num(7)
      [] OTHER -> NaN

FileWith(content) == [exists |-> TRUE, content |-> content]

\* parseInt(content) || 0
CountIn(file) ==
    IF ParseInt(file.content).nan THEN 0 ELSE ParseInt(file.content).v

\* incrementFailureCount: the file after the call and the number returned; a
\* file that cannot be read is written as "1"
incrementFailureCount(file) ==
    IF file.exists
    THEN [file |-> FileWith(NumberToString(CountIn(file) + 1)),
          count |-> CountIn(file) + 1]
    ELSE [file |-> FileWith(<<"1">>), count |-> 1]

\* resetFailureCount
resetFailureCount(file) == FileWith(<<"0">>)

\* getFailureCount
getFailureCount(file) == IF file.exists THEN CountIn(file) ELSE 0

InitFailures ==
    /\ SimilarityIdle
    /\ transcriptData = Undefined
    /\ TranscriptIdle
    /\ PanelsIdle
    /\ SyncIdle
    /\ failureCountFile \in {Absent, FileWith(<<>>), FileWith(<<"0">>)}
    /\ failureRuns = 0
    /\ streak = 0
    /\ crashSent = FALSE
    /\ pc = "exited"

\* a process starts; main finds no network and calls process.exit(0)
MainOffline ==
    /\ pc = "exited"
    /\ failureRuns < MaxFailureRuns
    /\ failureRuns' = failureRuns + 1
    /\ crashSent' = FALSE
    /\ UNCHANGED <<failureCountFile, streak, pc>>
    /\ UNCHANGED <<tvars, pvars, svars, cvars>>

\* a process starts and main goes past its network test
MainStarts ==
    /\ pc = "exited"
    /\ failureRuns < MaxFailureRuns
    /\ failureRuns' = failureRuns + 1
    /\ crashSent' = FALSE
    /\ pc' = "main"
    /\ UNCHANGED <<failureCountFile, streak>>
    /\ UNCHANGED <<tvars, pvars, svars, cvars>>

\* if (isForceMode && forceDocumentId && meetings.length === 0) { ...; return; }
MainReturnsEarly ==
    /\ pc = "main"
    /\ pc' = "exited"
    /\ streak' = 0
    /\ UNCHANGED <<failureCountFile, failureRuns, crashSent>>
    /\ UNCHANGED <<tvars, pvars, svars, cvars>>

\* main reaches its last line: await resetFailureCount();
MainReturns ==
    /\ pc = "main"
    /\ failureCountFile' = resetFailureCount(failureCountFile)
    /\ pc' = "exited"
    /\ streak' = 0
    /\ UNCHANGED <<failureRuns, crashSent>>
    /\ UNCHANGED <<tvars, pvars, svars, cvars>>

\* main rejects
MainThrows ==
    /\ pc = "main"
    /\ pc' = "catch"
    /\ streak' = streak + 1
    /\ UNCHANGED <<failureCountFile, failureRuns, crashSent>>
    /\ UNCHANGED <<tvars, pvars, svars, cvars>>

\* main().catch: if (!hasNetworkConnection()) { ...; process.exit(1); }
CatchOffline ==
    /\ pc = "catch"
    /\ pc' = "exited"
    /\ UNCHANGED <<failureCountFile, failureRuns, streak, crashSent>>
    /\ UNCHANGED <<tvars, pvars, svars, cvars>>

\* main().catch with a network: the count is incremented and the
\* notification is sent if (failureCount >= 3)
CatchReport ==
    /\ pc = "catch"
    /\ failureCountFile' = incrementFailureCount(failureCountFile).file
    /\ crashSent' = (incrementFailureCount(failureCountFile).count >= 3)
    /\ pc' = "exited"
    /\ UNCHANGED <<failureRuns, streak>>
    /\ UNCHANGED <<tvars, pvars, svars, cvars>>

NextFailures ==
    \/ MainOffline
    \/ MainStarts
    \/ MainReturnsEarly
    \/ MainReturns
    \/ MainThrows
    \/ CatchOffline
    \/ CatchReport

SpecFailures == InitFailures /\ [][NextFailures]_vars

----------------------------------------------------------------------------
(* Properties of deduplicateSegments *)

Similar(a, b) == AtLeastThreshold(calculateSimilarity(a.text, b.text))
MicSystemPair(a, b) == {a.source, b.source} = {MICROPHONE, SYSTEM}
\* the inner loop is about to compare segments i and j
Comparing ==
    /\ pc = "dedupInner"
    /\ j <= Len(processed)
    /\ j \notin toRemove
    /\ ~OutsideWindow

\* C1 (step): when segments i and j are compared, are similar and are a
\* microphone/system pair, the comparison removes exactly the system one.
C1_SystemRemoved ==
    (Comparing /\ Similar(processed[i], processed[j])
               /\ MicSystemPair(processed[i], processed[j]))
    => toRemove' = toRemove \cup
          {IF processed[i].source = SYSTEM THEN i ELSE j}

\* C1 (history): no microphone segment was removed on account of a system
\* segment.
C1_MicrophoneKept ==
    \A r \in removedBy :
        ~(processed[r[1]].source = MICROPHONE /\ processed[r[2]].source = SYSTEM)

\* C1 (rendering): a similar microphone/system pair inside the window is
\* rendered as the single block "Me:" with the microphone segment's text.
C1_SingleMeBlock ==
    (/\ pc = "returned"
     /\ pass = 1
     /\ Len(processed) = 2
     /\ MicSystemPair(processed[1], processed[2])
     /\ Similar(processed[1], processed[2])
     /\ processed[2].startTime.v <= processed[1].startTime.v + timeWindowMs)
    => LET mic == IF processed[1].source = MICROPHONE THEN processed[1]
                  ELSE processed[2]
       IN  lines = << <<"Me", ":">>, mic.text, <<>> >>

\* C1: in deduplicateSegments a similar microphone/system pair inside the
\* window always loses its system segment, whichever comes first and whichever
\* text is longer; no microphone segment is removed on account of a system
\* segment; such a pair alone renders as one "Me:" block.
C1_MicrophoneAuthoritative ==
    /\ [][C1_SystemRemoved]_vars
    /\ [](C1_MicrophoneKept /\ C1_SingleMeBlock)

\* C1 witness: a system segment that came first and had the longer text was
\* removed on account of a microphone segment, and the pair was rendered.
C1_Witness ==
    /\ pc = "returned"
    /\ Len(processed) = 2
    /\ \E r \in removedBy :
        /\ r[1] < r[2]
        /\ processed[r[1]].source = SYSTEM
        /\ processed[r[2]].source = MICROPHONE
        /\ Len(processed[r[1]].text) > Len(processed[r[2]].text)

\* C2: deduplicateSegments is idempotent on start-time-sorted lists: applied to
\* its own return value it removes nothing and returns the same list.
C2_DedupIdempotent ==
    pass = 2 =>
        /\ toRemove = {}
        /\ (pc \in {"format", "returned"} => deduplicated = firstPass.out)

\* C2 witness: the first application removed a segment and left at least two
\* inside one window, and the second application has returned.
C2_Witness ==
    /\ pass = 2
    /\ pc = "format"
    /\ Len(firstPass.out) < Len(firstPass.in)
    /\ Len(firstPass.out) >= 2
    /\ firstPass.out[2].startTime.v <= firstPass.out[1].startTime.v + timeWindowMs

----------------------------------------------------------------------------
(* Properties of processTranscript *)

\* processTranscript returned from formatTranscript
Formatted == pc = "returned" /\ segments # <<>>

\* C3: processTranscript raises no exception, whatever the input.
C3_NeverThrows == pc # "threw"

\* the texts of segs[a..b]
TextsOf(segs, a, b) == [m \in 1..(b - a + 1) |-> segs[a + m - 1].text]

\* the last index of the run of one speaker that starts at k
RunEnd(segs, k) ==
    CHOOSE e \in k..Len(segs) :
        /\ \A m \in k..e : segs[m].speaker = segs[k].speaker
        /\ e = Len(segs) \/ segs[e + 1].speaker # segs[k].speaker

RECURSIVE RunBlocks(_, _)
RunBlocks(segs, k) ==
    IF k > Len(segs) THEN <<>>
    ELSE << segs[k].speaker \o <<":">>,
            Join(TextsOf(segs, k, RunEnd(segs, k)), <<" ">>),
            <<>> >> \o RunBlocks(segs, RunEnd(segs, k) + 1)

RECURSIVE BuiltFromOwnSpeaker(_, _)
BuiltFromOwnSpeaker(ls, segs) ==
    IF Len(ls) = 0 THEN Len(segs) = 0
    ELSE /\ Len(ls) >= 3
         /\ \E n \in 1..Len(segs) :
               /\ \A m \in 1..n : segs[m].speaker \o <<":">> = ls[1]
               /\ ls[2] = Join(TextsOf(segs, 1, n), <<" ">>)
               /\ BuiltFromOwnSpeaker(SubSeq(ls, 4, Len(ls)),
                                      SubSeq(segs, n + 1, Len(segs)))

\* C5: every block's body is built only from texts of segments whose speaker
\* is the block's header label.
C5_NoCrossSpeakerMerge ==
    Formatted => BuiltFromOwnSpeaker(lines, deduplicated)

\* C5 witness: two speakers alternate and two blocks of different headers were
\* written, one of them from two segments.
C5_Witness ==
    /\ Formatted
    /\ Len(deduplicated) = 3
    /\ Len(lines) = 6
    /\ lines[1] # lines[4]

\* C6: the speaker of a processed segment is 'Me' for source 'microphone',
\* 'Them' for 'system' and 'Unknown' for anything else, and every header of a
\* formatted transcript is one of "Me:", "Them:", "Unknown:".
C6_SpeakerFromSource ==
    /\ \A k \in 1..Len(processed) :
          processed[k].speaker =
             CASE processed[k].source = <<"microphone">> -> <<"Me">>
               [] processed[k].source = <<"system">> -> <<"Them">>
               [] OTHER -> <<"Unknown">>
    /\ Formatted =>
          \A b \in 1..(Len(lines) \div 3) :
              lines[3 * b - 2] \in
                 { <<"Me", ":">>, <<"Them", ":">>, <<"Unknown", ":">> }

\* C6 witness: a formatted transcript with a block of each of the three labels.
C6_Witness ==
    /\ Formatted
    /\ \A h \in { <<"Me", ":">>, <<"Them", ":">>, <<"Unknown", ":">> } :
          \E b \in 1..(Len(lines) \div 3) : lines[3 * b - 2] = h

IsNonEmptyArray(v) == v.t = "array" /\ Len(v.a) > 0

\* no segments are found in d
NoSegmentsFound(d) ==
    IF d.t = "array" THEN Len(d.a) = 0
    ELSE /\ ~IsNonEmptyArray(GetSegments(d))
         /\ ~IsNonEmptyArray(GetSegments(GetTranscript(d)))

\* C7: for an input that is not a string and holds no segments, the result is
\* the input's .transcript string if there is one and '' otherwise.
C7_FallbackIsString ==
    (pc = "returned" /\ transcriptData.t # "string"
                     /\ NoSegmentsFound(transcriptData))
    => /\ result.t = "string"
       /\ result.s = IF GetTranscript(transcriptData).t = "string"
                     THEN GetTranscript(transcriptData).s ELSE <<>>

\* every element of the array is a segment whose text is a blank string
AllBlank(a) ==
    \A k \in 1..Len(a) :
        a[k].t = "object" /\ a[k].text.t = "string" /\ Trim(a[k].text.s) = <<>>

\* C8 as claimed: whenever no segment survives (the segment list is empty, or
\* every segment's text is blank) the string returned is ''.
C8_EmptyWhenNoneSurvive ==
    (pc = "returned" /\ transcriptData.t # "string"
                     /\ AllBlank(ExtractSegments(transcriptData).a)
                     /\ result.t = "string")
    => result.s = <<>>

\* C8 as amended: the result is '' when the segment list is empty and the input
\* has no truthy .transcript, and when the list is not empty and every
\* segment's text is blank; for an empty list beside a .transcript string it is
\* that string.
C8_EmptyWhenNoneSurviveAmended ==
    (/\ pc = "returned"
     /\ transcriptData.t # "string"
     /\ AllBlank(ExtractSegments(transcriptData).a))
    => IF \/ Len(ExtractSegments(transcriptData).a) > 0
          \/ ~Truthy(GetTranscript(transcriptData))
       THEN result.t = "string" /\ result.s = <<>>
       ELSE GetTranscript(transcriptData).t = "string"
               => result = GetTranscript(transcriptData)

\* C8 witness: a list of two blank segments, one empty and one of spaces, beside
\* a .transcript string, went through formatTranscript.
C8_Witness ==
    /\ Formatted
    /\ Len(segments) = 2
    /\ AllBlank(segments)
    /\ segments[1].text.s # segments[2].text.s
    /\ Truthy(GetTranscript(transcriptData))

----------------------------------------------------------------------------
(* Properties of the panel processor *)

\* the panels the flatMap has gone through
Extracted == IF Truthy(panels) THEN 1..(p - 1) ELSE {}
DomOf(k) == IF Truthy(panels.a[k].original_content)
            THEN panels.a[k].original_content.dom ELSE <<>>

\* heading h is directly followed by another h3 or by nothing
NothingFollows(h) ==
    h.at = Len(h.siblings) \/ h.siblings[h.at + 1].tag = "h3"

ContainsH3(dom) ==
    \E k \in 1..Len(dom) :
        \/ dom[k].tag = "h3"
        \/ dom[k].tag = "div" /\ \E m \in 1..Len(dom[k].kids) : dom[k].kids[m].tag = "h3"

\* C9: a section is collected for an h3 only if the heading's trimmed text and
\* the trimmed Markdown of the content up to the next h3 are both non-empty; a
\* heading directly followed by an h3 or by the end yields no section, and a
\* panel without h3 yields none.
C9_OnlyNonEmptySections ==
    /\ \A k \in 1..Len(allSections) :
          LET h == H3Elements(DomOf(origins[k][1]))[origins[k][2]]
          IN  /\ allSections[k].title = Trim(h.siblings[h.at].text)
              /\ allSections[k].title # <<>>
              /\ allSections[k].content # <<>>
              /\ allSections[k].content = Trim(allSections[k].content)
    /\ \A k \in Extracted :
          /\ \A m \in 1..Len(H3Elements(DomOf(k))) :
                NothingFollows(H3Elements(DomOf(k))[m])
                    => \A o \in 1..Len(origins) : origins[o] # <<k, m>>
          /\ ~ContainsH3(DomOf(k))
                    => \A o \in 1..Len(origins) : origins[o][1] # k

\* C9 witness: of one panel, a heading with nothing after it was passed over
\* and another heading's section was collected.
C9_Witness ==
    /\ pc = "returned"
    /\ \E o \in 1..Len(origins) :
          \E m \in 1..Len(H3Elements(DomOf(origins[o][1]))) :
              /\ NothingFollows(H3Elements(DomOf(origins[o][1]))[m])
              /\ \A q \in 1..Len(origins) : origins[q] # <<origins[o][1], m>>

\* C10: the collected sections are ordered by panel, and within a panel by the
\* document order of their headings; the returned string holds them in that
\* order.
C10_SectionOrder ==
    /\ Len(origins) = Len(allSections)
    /\ \A a, b \in 1..Len(origins) :
          a < b =>
             \/ origins[a][1] < origins[b][1]
             \/ origins[a][1] = origins[b][1] /\ origins[a][2] < origins[b][2]
    /\ \A k \in 1..Len(allSections) :
          allSections[k].title =
             TitleOf(H3Elements(DomOf(origins[k][1]))[origins[k][2]])
    /\ (pc = "returned" /\ Truthy(panels) /\ Len(panels.a) > 0) =>
          panelResult.s = PostProcess(
             Join([k \in 1..Len(allSections) |-> MarkdownSection(allSections[k])],
                  <<"\n", "\n">>))

\* C10 witness: two sections of the first panel and one of the second were
\* returned.
C10_Witness ==
    /\ pc = "returned"
    /\ Len(origins) >= 3
    /\ origins[1][1] = 1
    /\ origins[2][1] = 1
    /\ origins[Len(origins)][1] = 2

----------------------------------------------------------------------------
(* Properties of the rendering of processPanels *)

Rendered == pc = "returned" /\ Truthy(panels) /\ Len(panels.a) > 0

PanelOf(dom) == [original_content |-> Html(dom), template_slug |-> <<"slug">>]

\* C11: the result is the emitted sections, each '### ' + title + newline +
\* body, with exactly two newlines between consecutive sections and nothing
\* before the first or after the last; the Agenda/Notes panel yields
\* '### Agenda\n- Item A\n\n### Notes\nText'.
C11_SectionsJoinedByBlankLine ==
    Rendered =>
        /\ panelResult.s =
              Join([k \in 1..Len(allSections) |->
                       <<"###", " ">> \o allSections[k].title \o <<"\n">>
                           \o PostProcess(allSections[k].content)],
                   <<"\n", "\n">>)
        /\ panels.a = << PanelOf(<<H3(<<"Agenda">>), List(<< <<"Item", " ", "A">> >>),
                                   H3(<<"Notes">>), Para(<<"Text">>)>>) >>
              => panelResult.s = <<"###", " ", "Agenda", "\n", "-", " ", "Item", " ", "A",
                                   "\n", "\n", "###", " ", "Notes", "\n", "Text">>

\* C12: a panel whose list item holds a checkbox input before ' Done' renders
\* the item as '- [x] Done' when the checkbox is checked and as '- [ ] Done'
\* when it is not.
C12_CheckboxItemRendered ==
    \A checked \in BOOLEAN :
        (Rendered /\ panels.a = << PanelOf(<<H3(<<"Tasks">>),
                                             Checklist(checked, <<" ", "Done">>)>>) >>)
        => panelResult.s = <<"###", " ", "Tasks", "\n", "-", " ", "[">>
                              \o (IF checked THEN <<"x">> ELSE <<" ">>)
                              \o <<"]", " ", "Done">>

----------------------------------------------------------------------------
(* Properties of main and the handlers of sync.ts *)

\* some panel of the list has a string original_content that is not blank
NonBlankPanel(list) ==
    /\ list.t = "array"
    /\ \E k \in 1..Len(list.a) :
          /\ list.a[k].original_content.t = "string"
          /\ \E c \in 1..Len(list.a[k].original_content.s) :
                ~IsWhitespace(list.a[k].original_content.s[c])

HandlerReached == pc \in {"handle", "handled"}

\* C13: a handler is reached, and the vault or a daily note written, only for
\* the meeting of the loop and only when its panel request succeeded with a
\* list holding a panel whose original_content is not blank.
C13_NoNoteWithoutPanels ==
    /\ [](HandlerReached =>
            /\ NonBlankPanel(fetched)
            /\ meetingData.id = meetings[meetingIndex].id)
    /\ [][(vault' # vault \/ daily' # daily)
             => pc = "handle" /\ pc' = "handled" /\ NonBlankPanel(fetched)]_vars

\* the second meeting of a run has panels without content, after the first
\* one was written to the vault
C13_Witness ==
    /\ pc = "panels"
    /\ meetingIndex = 2
    /\ fetched.t = "array"
    /\ Len(fetched.a) > 0
    /\ ~NonBlankPanel(fetched)
    /\ \E path \in DOMAIN vault : vault[path].exists

TargetPath(category) ==
    IF category.type = "oneOnOne" THEN OneOnOnePath(category.targetName)
    ELSE RecurringPath(category.targetName)

AlreadySynced ==
    /\ pc = "handle"
    /\ meetingData.category.type \in {"oneOnOne", "recurring"}
    /\ vault[TargetPath(meetingData.category)].exists
    /\ InSeq(meetingData.id, vault[TargetPath(meetingData.category)].synced_meetings)

SectionsFor(file, id) == {k \in 1..Len(file.sections) : file.sections[k].id = id}

----------------------------------------------------------------------------
(* Further properties of deduplicateSegments *)

\* C15 (step): when segments i and j are compared, are similar and are not a
\* microphone/system pair, the comparison removes exactly the one with the
\* strictly shorter text, and the later one when the lengths are equal.
C15_ShorterRemoved ==
    (Comparing /\ Similar(processed[i], processed[j])
               /\ ~MicSystemPair(processed[i], processed[j]))
    => toRemove' = toRemove \cup
          {IF Len(processed[j].text) > Len(processed[i].text) THEN i ELSE j}

\* C15 (history): outside microphone/system pairs no segment was removed on
\* account of a shorter one, nor an earlier one on account of a later one of
\* the same length.
C15_LongerNeverRemoved ==
    \A r \in removedBy :
        MicSystemPair(processed[r[1]], processed[r[2]])
        \/ Len(processed[r[1]].text) < Len(processed[r[2]].text)
        \/ (Len(processed[r[1]].text) = Len(processed[r[2]].text) /\ r[1] > r[2])

\* C15: in deduplicateSegments, of two compared segments that are similar and
\* not a microphone/system pair the one with the strictly longer text is kept
\* and the other removed; with texts of equal length the earlier segment is
\* kept and the later one removed.
C15_LongerTextKept ==
    /\ [][C15_ShorterRemoved]_vars
    /\ []C15_LongerNeverRemoved

\* C15 witness: outside microphone/system pairs, an earlier segment was
\* removed on account of a longer later one, and a later segment on account
\* of an earlier one with a different text of the same length.
C15_Witness ==
    /\ pc = "format"
    /\ pass = 1
    /\ \E r \in removedBy :
        /\ r[1] < r[2]
        /\ ~MicSystemPair(processed[r[1]], processed[r[2]])
        /\ Len(processed[r[1]].text) < Len(processed[r[2]].text)
    /\ \E r \in removedBy :
        /\ r[1] > r[2]
        /\ ~MicSystemPair(processed[r[1]], processed[r[2]])
        /\ processed[r[1]].text # processed[r[2]].text
        /\ Len(processed[r[1]].text) = Len(processed[r[2]].text)

\* both segments have a numeric start time
NumericStarts(a, b) ==
    ~processed[a].startTime.nan /\ ~processed[b].startTime.nan

\* start time of segment b minus start time of segment a
StartDistance(a, b) == processed[b].startTime.v - processed[a].startTime.v

\* the inner loop has reached a segment j that is not yet removed
AtCandidate ==
    /\ pc = "dedupInner"
    /\ j <= Len(processed)
    /\ j \notin toRemove

\* C16 (step): a candidate j starting at most 4500 ms after i is compared
\* with i (the scan goes on to j + 1 or one of the two is removed); one
\* starting later ends the scan for i with nothing removed.
C16_ComparedIffInWindow ==
    (AtCandidate /\ NumericStarts(i, j)) =>
        IF StartDistance(i, j) <= 4500
        THEN j' = j + 1 \/ toRemove' # toRemove
        ELSE /\ toRemove' = toRemove
             /\ removedBy' = removedBy
             /\ j' = j
             /\ i' = i + 1
             /\ pc' = "dedupOuter"

\* C16 (history): every removal was on account of a segment starting at most
\* 4500 ms before or after the removed one.
C16_RemovedWithinWindow ==
    \A r \in removedBy :
        NumericStarts(r[1], r[2]) =>
            /\ StartDistance(r[1], r[2]) <= 4500
            /\ StartDistance(r[2], r[1]) <= 4500

\* C16: the conflict window of segment i is the closed interval
\* [start_i, start_i + 4500]: a later segment starting exactly 4500 ms after i
\* is compared with i, one starting 4501 ms after i is not, and no segment is
\* removed on account of a segment starting more than 4500 ms from it.
C16_ClosedWindow ==
    /\ [][C16_ComparedIffInWindow]_vars
    /\ []C16_RemovedWithinWindow


----------------------------------------------------------------------------
(* Properties of calculateSimilarity *)

\* u can be obtained from s by deleting characters
RECURSIVE IsSubsequence(_, _)
IsSubsequence(u, s) ==
    IF u = <<>> THEN TRUE
    ELSE IF s = <<>> THEN FALSE
    ELSE IF u[1] = s[1] THEN IsSubsequence(Tail(u), Tail(s))
    ELSE IsSubsequence(u, Tail(s))

\* the characters of s at the positions in keep, from position k on
RECURSIVE Restrict(_, _, _)
Restrict(s, keep, k) ==
    IF k > Len(s) THEN <<>>
    ELSE (IF k \in keep THEN <<s[k]>> ELSE <<>>) \o Restrict(s, keep, k + 1)

\* the length of a longest common subsequence, by enumeration
TrueLcsLength(s1, s2) ==
    LET lengths == { Cardinality(keep) :
                       keep \in { some \in SUBSET (1..Len(s1)) :
                                    IsSubsequence(Restrict(s1, some, 1), s2) } }
    IN  CHOOSE n \in lengths : \A k \in lengths : k <= n

\* s = u + t + v for some u and v
ContainsText(s, t) ==
    \E a, b \in 0..Len(s) : a <= b /\ SubSeq(s, a + 1, b) = t

\* the reference definition, as the quotient num/den
ReferenceSimilarity(a, b) ==
    LET s1 == ToLowerCase(a)
        s2 == ToLowerCase(b)
        shorter == IF Len(s1) <= Len(s2) THEN Len(s1) ELSE Len(s2)
        longer == IF Len(s1) <= Len(s2) THEN Len(s2) ELSE Len(s1)
    IN  IF s1 = s2 THEN [num |-> 1, den |-> 1]
        ELSE IF Len(s1) = 0 \/ Len(s2) = 0 THEN [num |-> 0, den |-> 1]
        ELSE IF ContainsText(s1, s2) \/ ContainsText(s2, s1)
             \* shorter/longer + 2/10
             THEN [num |-> 10 * shorter + 2 * longer, den |-> 10 * longer]
        ELSE [num |-> TrueLcsLength(s1, s2), den |-> longer]

\* C17: calculateSimilarity, comparing the texts case-insensitively, returns
\* 1.0 for identical strings, 0.0 when either is empty, min/max + 0.2 when one
\* contains the other and L/max otherwise, and L, the value of
\* longestCommonSubsequence, is the true length of a longest common
\* subsequence.
C17_SimilarityIsReference ==
    pc = "similarityReturned" =>
        LET ref == ReferenceSimilarity(simText1, simText2)
        IN  /\ similarity.num * ref.den = ref.num * similarity.den
            /\ longestCommonSubsequence(simText1, simText2)
                 = TrueLcsLength(simText1, simText2)
            /\ (simText1 = simText2 => similarity.num = similarity.den)

\* C17 witness: calculateSimilarity returned for two texts that differ after
\* lowering, one of them with an upper-case letter, neither containing the
\* other, whose longest common subsequence is shorter than both and not a
\* contiguous part of either.
C17_Witness ==
    /\ pc = "similarityReturned"
    /\ ToLowerCase(simText1) # simText1
    /\ ~ContainsText(ToLowerCase(simText1), ToLowerCase(simText2))
    /\ ~ContainsText(ToLowerCase(simText2), ToLowerCase(simText1))
    /\ similarity.num = 3
    /\ similarity.den = 4
    /\ Len(simText1) = 4
    /\ Len(simText2) = 4
    /\ \A keep \in SUBSET (1..4) :
          (Cardinality(keep) = 3
           /\ IsSubsequence(Restrict(ToLowerCase(simText1), keep, 1),
                            ToLowerCase(simText2)))
          => ~ContainsText(ToLowerCase(simText1),
                           Restrict(ToLowerCase(simText1), keep, 1))


----------------------------------------------------------------------------
(* The early exit of deduplicateSegments' inner loop *)

\* the inner loop for segment a from candidate b on, with `continue` in place
\* of the `break` on the window bound
RECURSIVE ScanWithoutEarlyExit(_, _, _, _)
ScanWithoutEarlyExit(segs, a, b, removed) ==
    IF b > Len(segs) THEN removed
    ELSE IF b \in removed THEN ScanWithoutEarlyExit(segs, a, b + 1, removed)
    ELSE IF segs[b].startTime.v > segs[a].startTime.v + 4500
         THEN ScanWithoutEarlyExit(segs, a, b + 1, removed)
    ELSE LET r == Resolve(segs[a], segs[b])
         IN  IF r = "none" THEN ScanWithoutEarlyExit(segs, a, b + 1, removed)
             ELSE IF r = "j"
                  THEN ScanWithoutEarlyExit(segs, a, b + 1, removed \cup {b})
             ELSE removed \cup {a}

\* the set of indices that variant removes, from segment a on
RECURSIVE RemovedWithoutEarlyExit(_, _, _)
RemovedWithoutEarlyExit(segs, a, removed) ==
    IF a > Len(segs) THEN removed
    ELSE IF a \in removed THEN RemovedWithoutEarlyExit(segs, a + 1, removed)
    ELSE RemovedWithoutEarlyExit(segs, a + 1,
             ScanWithoutEarlyExit(segs, a, a + 1, removed))

\* C18: on every start-time-sorted list deduplicateSegments removes exactly
\* the segments removed by the variant that never breaks on the window bound
\* but skips each later segment j with start_j > start_i + 4500 and keeps
\* scanning.
C18_EarlyExitValid ==
    pc = "format" =>
        /\ toRemove = RemovedWithoutEarlyExit(processed, 1, {})
        /\ deduplicated =
               FilterKept(processed, RemovedWithoutEarlyExit(processed, 1, {}), 1)

\* C18 witness: the scan for segment 1 broke at segment 2, 4501 ms later,
\* leaving out segment 3, which is similar to segment 1; segment 3 was then
\* removed on account of segment 2.
C18_Witness ==
    /\ pc = "format"
    /\ pass = 1
    /\ Len(processed) = 3
    /\ StartDistance(1, 2) = 4501
    /\ Similar(processed[1], processed[3])
    /\ removedBy = {<<3, 2>>}


----------------------------------------------------------------------------
(* Properties of the list handed to deduplicateSegments *)

\* processTranscript has called deduplicateSegments
DedupCalled == pc \in {"dedupOuter", "dedupInner", "format", "returned"}
                 /\ segments # <<>>

\* the segments of the list with this start time, in the list's order
RECURSIVE WithStart(_, _)
WithStart(list, t) ==
    IF Len(list) = 0 THEN <<>>
    ELSE (IF list[1].startTime = t THEN <<list[1]>> ELSE <<>>)
             \o WithStart(Tail(list), t)

\* C19: the list processTranscript passes to deduplicateSegments is in
\* non-decreasing startTime order, and segments with equal start times keep
\* their relative input order.
C19_SortedAndStable ==
    DedupCalled =>
        /\ \A a, b \in 1..Len(processed) :
              (a < b /\ NumericStarts(a, b)) => StartDistance(a, b) >= 0
        /\ \A k \in 1..Len(processed) :
              ~processed[k].startTime.nan =>
                  WithStart(processed, processed[k].startTime)
                      = WithStart(FilterMap(segments), processed[k].startTime)

\* the timestamp is missing or empty, or is a string that is not a date
AbsentOrUnparsable(timestamp) ==
    ~Truthy(timestamp) \/ DateGetTime(timestamp.s).nan

\* C20: toProcessedSegment yields startTime 0 and endTime 0 whenever the
\* corresponding timestamp is absent or cannot be parsed as a date, so every
\* processed segment carries integer, never NaN, start and end times.
C20_TimesDefaultToZero ==
    DedupCalled =>
        /\ \A k \in 1..Len(processed) :
              ~processed[k].startTime.nan /\ ~processed[k].endTime.nan
        /\ \A k \in 1..Len(segments) :
              KeepsSegment(segments[k]) =>
                  /\ AbsentOrUnparsable(segments[k].start_timestamp)
                        => toProcessedSegment(segments[k]).startTime = Num(0)
                  /\ AbsentOrUnparsable(segments[k].end_timestamp)
                        => toProcessedSegment(segments[k]).endTime = Num(0)


\* C21: calculateSimilarity returns a value in the range 0.0 to 1.0
\* inclusive for every pair of strings.
C21_SimilarityInUnitRange ==
    pc = "similarityReturned" =>
        /\ similarity.den > 0
        /\ 0 <= similarity.num
        /\ similarity.num <= similarity.den


----------------------------------------------------------------------------
(* Properties of the replace calls that end processPanels *)

\* the lines of a string
RECURSIVE SplitLines(_)
SplitLines(s) ==
    IF \A k \in 1..Len(s) : s[k] # "\n" THEN <<s>>
    ELSE LET at == CHOOSE k \in 1..Len(s) :
                      s[k] = "\n" /\ \A m \in 1..(k - 1) : s[m] # "\n"
         IN  <<SubSeq(s, 1, at - 1)>> \o SplitLines(SubSeq(s, at + 1, Len(s)))

\* the length of the run of spaces that starts at k
RECURSIVE SpaceRun(_, _)
SpaceRun(line, k) ==
    IF k > Len(line) \/ line[k] # " " THEN 0 ELSE 1 + SpaceRun(line, k + 1)

\* the line begins with a bullet dash followed by two or more spaces
DashThenSpaces(line) ==
    Len(line) >= 1 /\ line[1] = "-" /\ SpaceRun(line, 2) >= 2

\* the line begins with '- [x]' or '- [ ]' followed by two or more spaces
MarkerThenSpaces(line) ==
    /\ Len(line) >= 5
    /\ SubSeq(line, 1, 5) \in {<<"-", " ", "[", "x", "]">>, <<"-", " ", "[", " ", "]">>}
    /\ SpaceRun(line, 6) >= 2

\* the line with that run reduced to one space
ReducedLine(line) ==
    IF DashThenSpaces(line)
    THEN <<"-", " ">> \o SubSeq(line, 2 + SpaceRun(line, 2), Len(line))
    ELSE SubSeq(line, 1, 5) \o <<" ">>
             \o SubSeq(line, 6 + SpaceRun(line, 6), Len(line))

\* the sections joined, before the replace calls
JoinedSections ==
    Join([k \in 1..Len(allSections) |-> MarkdownSection(allSections[k])],
         <<"\n", "\n">>)

\* C22: after the replace calls of processPanels every line that began with a
\* bullet dash followed by two or more spaces, or with a checkbox marker
\* followed by two or more spaces, has that run reduced to exactly one space,
\* whatever the length of the run; no line of the result begins that way.
C22_SpaceRunsCollapsed ==
    Rendered =>
        LET before == SplitLines(JoinedSections)
            after == SplitLines(panelResult.s)
        IN  /\ \A k \in 1..Len(after) :
                  ~DashThenSpaces(after[k]) /\ ~MarkerThenSpaces(after[k])
            /\ Len(after) = Len(before) =>
                  \A k \in 1..Len(before) :
                      (DashThenSpaces(before[k]) \/ MarkerThenSpaces(before[k]))
                          => after[k] = ReducedLine(before[k])


----------------------------------------------------------------------------
(* The survivors of deduplicateSegments *)

\* the start times of the two segments differ by at most 4500 ms
Within4500(a, b) ==
    /\ b.startTime.v - a.startTime.v <= 4500
    /\ a.startTime.v - b.startTime.v <= 4500

\* C26: after deduplicateSegments ran on a start-time-sorted list, no two
\* surviving segments whose start times differ by at most 4500 ms have
\* similarity >= 0.68.
C26_SurvivorsDissimilar ==
    pc = "format" =>
        \A a, b \in 1..Len(deduplicated) :
            (a < b /\ Within4500(deduplicated[a], deduplicated[b]))
                => /\ ~Similar(deduplicated[a], deduplicated[b])
                   /\ ~Similar(deduplicated[b], deduplicated[a])

\* C26 witness: of three segments one was removed, and the two survivors start
\* exactly 4500 ms apart.
C26_Witness ==
    /\ pc = "format"
    /\ pass = 1
    /\ Len(processed) = 3
    /\ Len(deduplicated) = 2
    /\ deduplicated[2].startTime.v - deduplicated[1].startTime.v = 4500

\* C27: every segment removed by deduplicateSegments has similarity >= 0.68
\* with at least one surviving segment whose start time is within 4500 ms of
\* its own.
C27_RemovedHasSimilarSurvivor ==
    pc = "format" =>
        \A k \in toRemove :
            \E m \in (1..Len(processed)) \ toRemove :
                /\ Within4500(processed[k], processed[m])
                /\ Similar(processed[k], processed[m])

\* C28: for every non-empty input list at least one segment survives
\* deduplicateSegments, and the survivors are a subsequence of the input, the
\* records unchanged.
C28_SomeSurviveInOrder ==
    (pc = "format" /\ Len(processed) > 0) =>
        /\ Len(deduplicated) > 0
        /\ Len(deduplicated) = Len(processed) - Cardinality(toRemove)
        /\ IsSubsequence(deduplicated, processed)
        /\ toRemove \subseteq 1..Len(processed)

\* C28 witness: of three segments the first and the last were removed.
C28_Witness ==
    /\ pc = "format"
    /\ pass = 1
    /\ Len(processed) = 3
    /\ toRemove = {1, 3}
    /\ deduplicated = <<processed[2]>>


----------------------------------------------------------------------------
(* Properties of the failure tracking *)

\* C23 (step): a failing run with a network increments the persisted count by
\* one and sends the notification exactly when the new count is >= 3; a run
\* of main that completes without failing leaves the count at 0.
C23_CountSteps ==
    /\ (pc = "catch" /\ failureCountFile' # failureCountFile) =>
          /\ getFailureCount(failureCountFile') = getFailureCount(failureCountFile) + 1
          /\ crashSent' = (getFailureCount(failureCountFile') >= 3)
    /\ (pc = "main" /\ pc' = "exited") => getFailureCount(failureCountFile') = 0

\* C23 (history): the notification was sent only by a run that is at least
\* the third failed run in a row.
C23_SentOnThirdInRow == crashSent => streak >= 3

\* C23: over any sequence of runs the 'Granola Sync CRASHED' notification is
\* sent by a failing run only when that run is at least the third failure in
\* a row: each failing run with a network increments the persisted count by
\* one, a run of main that completes resets it to 0, and the notification is
\* sent exactly when the incremented count is >= 3.
C23_CrashAfterThreeInRow ==
    /\ [][C23_CountSteps]_vars
    /\ []C23_SentOnThirdInRow

----------------------------------------------------------------------------
(* Further properties of main and the handlers of sync.ts *)

\* C24: a meeting whose id is the calendar_event_id of a granola note under
\* .trash is passed over by the loop, with or without --force and whether or
\* not a live note with the same id exists: no handler is reached for it and
\* no step taken for it writes to the vault or to a daily note.
C24_DeletedNeverResurrected ==
    /\ [](HandlerReached => meetingData.id \notin trashed)
    /\ [][(InLoop /\ meeting.id \in trashed)
             => /\ vault' = vault
                /\ daily' = daily
                /\ pc' = "loop"
                /\ meetingIndex' = meetingIndex + 1]_vars
    /\ [][(vault' # vault \/ daily' # daily) => meetingData.id \notin trashed]_vars

\* a forced run has just passed over its meeting, whose id is in the trash
\* while the live ad-hoc note of the same id is still in the vault
C24_Witness ==
    /\ pc = "loop"
    /\ isForceMode
    /\ meetingIndex = 2
    /\ meetings[1].id \in trashed
    /\ vault[AdHocPathOf(meetings[1])].exists
    /\ vault[AdHocPathOf(meetings[1])].calendar_event_id = meetings[1].id

\* C25: outside force mode the loop passes over a meeting with a live note of
\* its id only when its title categorizes it as ad hoc; a meeting categorized
\* as 1:1 or recurring goes on to the panel request and its handler.
C25_FiledNonAdHocProceeds ==
    (InLoop /\ ~isForceMode /\ ~IsDeleted(meeting) /\ ExistingFiled(meeting))
    => IF categorizeMeeting(ensureTitle(meeting.title)).type = "adHoc"
       THEN ENABLED SkipExisting /\ ~ENABLED GetPanels
       ELSE ENABLED GetPanels /\ ~ENABLED SkipExisting

\* the file a call of handleOneOnOneMeeting / handleRecurringMeeting for the
\* loop's meeting finds at its target path
FoundTarget ==
    /\ pc = "handle"
    /\ meetingData.category.type \in {"oneOnOne", "recurring"}
    /\ Len(meetingData.category.targetName) > 0
    /\ vault[TargetPath(meetingData.category)].exists

\* C29: a call of handleOneOnOneMeeting / handleRecurringMeeting that finds
\* its target file leaves every section and every synced_meetings entry of the
\* file in place, whichever of readFile, matter, writeFile and logToDaily
\* fails during the call.
C29_ExistingFileKept ==
    [][FoundTarget =>
          LET before == vault[TargetPath(meetingData.category)]
              after == vault'[TargetPath(meetingData.category)]
          IN  /\ after.exists
              /\ \A k \in 1..Len(before.synced_meetings) :
                    InSeq(before.synced_meetings[k], after.synced_meetings)
              /\ \A k \in 1..Len(before.sections) :
                    InSeq(before.sections[k], after.sections)]_vars

\* C30: a call of handleOneOnOneMeeting / handleRecurringMeeting that returns
\* success with the action 'Appended to' has left a file that lists the
\* meeting's id in synced_meetings and holds a section with the meeting's date
\* and panel content, whatever the file held before.
C30_AppendedSectionPresent ==
    [][(FoundTarget /\ pc' = "handled" /\ handlerResult'.success
                    /\ handlerResult'.action = <<"Appended to">>)
          => LET after == vault'[handlerResult'.filePath]
             IN  /\ InSeq(meetingData.id, after.synced_meetings)
                 /\ \E k \in 1..Len(after.sections) :
                       /\ after.sections[k].id = meetingData.id
                       /\ after.sections[k].dateStr = meetingData.dateStr
                       /\ after.sections[k].panelContent = meetingData.panelContent]_vars

====
